---- MODULE Spec2Model ----
(***************************************************************************)
(* Journey resolution pipeline of SPITRO: the POST handler of              *)
(* src/app/api/journey/route.ts.  One request is processed from the moment *)
(* its body has been read until the handler has returned its response.     *)
(* The external collaborators (language model client, station search,      *)
(* geocoder, journey planner) answer nondeterministically: every call may  *)
(* succeed, return nothing, or fail.                                       *)
(***************************************************************************)
EXTENDS Integers, Sequences, FiniteSets, TLC

\* ---------------------------------------------------------------- bounds
\* Largest number of itineraries the planner returns in one answer.
MaxJourneys == 4
\* Longest via list of a request body or of a parsed intent.
MaxVia == 2
\* Saturation value of the call counters (never reached by the handler).
CallCap == 7
\* Longest mode list of a request body or of a parsed intent.
MaxModes == 2
\* Longest text, in words, handed to hasOnlyConstraint.
MaxWords == 3
\* Largest number of legs of an itinerary under enrichment.
MaxLegs == 3
\* Longest list of accessibility options of a request body.
MaxOptions == 2
\* Attempts of a natural-language request followed while a second request is
\* served.
ConcAttempts == 1

\* ------------------------------------------------------ program constants
\* for (let attempt = 0; attempt < 5; attempt += 1)
MaxAttempts == 5
\* if (attempt < 4) { ... continue; }
LastRetryAttempt == 4
\* nlpIntent.intent_confidence < 0.3, in hundredths
ConfidenceThreshold == 30
\* orderedJourneys.slice(0, 3)
MaxReturned == 3
\* deps.slice(0, 3), relevantArrivals ... .slice(0, 3)
MaxArrivals == 3

ALLOWED_MODES ==
  << "tube", "bus", "dlr", "overground", "tram", "river-bus", "walking",
     "national-rail", "cable-car", "coach", "cycle" >>

DEFAULT_MODES ==
  << "tube", "bus", "dlr", "overground", "walking", "national-rail" >>

Guidance ==
  "Revise stations (must be valid/open), adjust modes/time to produce a feasible plan."

\* ------------------------------------------------------------ error texts
\* texts of the handler's error responses and, last, the messages of errors
\* thrown by the collaborators' clients
Msg ==
  [
    LowConfidence |->
      "Could not understand your query. Please try rephrasing or use manual station selection.",
    NotJourney |->
      "This appears to be a service status query. Please use the status page.",
    NeedMoreInfo |-> "Need more information",
    LocationRequired |-> "location_required",
    CouldNotResolveStart |-> "Could not resolve starting location",
    CouldNotFindLocation |-> "Could not find location",
    DestinationRequired |-> "Destination is required",
    CouldNotFindDestination |-> "Could not find destination",
    CouldNotFindStart |-> "Could not find starting location",
    BothRequired |-> "Both starting point and destination are required",
    NoJourneys |-> "No journeys found",
    FailedToPlan |-> "Failed to plan journey",
    TflApiError |-> "TFL API error",
    AiError |-> "AI client error",
    TypeError |-> "Cannot read properties of undefined (reading 'slice')"
  ]

VARIABLES
  body,          \* the request body (JourneySearchParams)
  pc,            \* position of the handler
  attempt,       \* loop variable of the natural-language retry loop
  currentQuery,  \* text handed to the intent extractor: the original query,
                 \* its JSON_FEEDBACK suffixes, and the attempt each reports
  lastError,     \* message of the error caught last ("null" before the first)
  thrown,        \* the error thrown last and the attempt that threw it
  allPrevNoJourneys, \* every failed attempt so far failed with "No journeys found"
  locationRequired,  \* some attempt has thrown location_required
  extractorInput,    \* text of the last intent-extractor call and its attempt
  intent,        \* intent parsed in the current attempt
  fromLocation,
  toLocation,
  viaLocation,
  planRequest,   \* parameters of the last planner call
  planOutcome,   \* answer of the last planner call
  journeyResult, \* journeys of the last planner answer
  response,      \* the response returned
  responses,     \* number of responses returned
  calls,         \* collaborator calls issued in the current attempt
  total,         \* intent-extractor and planner calls issued by the request
  resolution,    \* endpoint resolved by the last step and what its collaborators answered
  prefs,         \* mode preferences of the request, of the intent and of the query text
  requestedModes,
  restrictToMentionedModes,
  mode,          \* journeyParams.mode, the mode list sent to the planner
  resultJourneys, \* journeyResult.journeys with the modes of their legs
  orderedJourneys,
  topJourneys,   \* orderedJourneys.slice(0, 3)
  journeysWithDescriptions, \* what Promise.all has gathered per journey
  joinPending,   \* the description and enrichment calls that have not completed
  arg,           \* argument of the helper function under application
  result,        \* what the helper function returned
  journey,       \* journey.legs of the itinerary under enrichment
  nrEnabled,     \* nationalRailClient.isEnabled()
  requests,      \* the arrivals requests issued for the itinerary
  answers,       \* what the arrivals providers answered
  arrivals,      \* the batched arrivals, [] after a failed request
  nrByCrs,       \* the departures stored per rail code
  nrPending,     \* rail codes whose request has not completed
  linePending,   \* legs whose per-line request has not completed
  enhanced,      \* per leg, the enhancements computed so far
  suspended,     \* the locals of the other request, which is not running
  running        \* the request whose function is running

vars ==
  << body, pc, attempt, currentQuery, lastError, thrown,
     allPrevNoJourneys, locationRequired, extractorInput, intent, fromLocation, toLocation, viaLocation,
     planRequest, planOutcome, journeyResult, response, responses, calls,
     total, resolution, prefs, requestedModes, restrictToMentionedModes, mode,
     resultJourneys, orderedJourneys, topJourneys, journeysWithDescriptions,
     joinPending, arg, result,
     journey, nrEnabled, requests, answers, arrivals, nrByCrs, nrPending,
     linePending, enhanced, suspended, running >>

\* the variables of the request handler, its position excepted
handlerVars ==
  << body, attempt, currentQuery, lastError, thrown, allPrevNoJourneys,
     locationRequired, extractorInput, intent, fromLocation, toLocation,
     viaLocation, planRequest, planOutcome, journeyResult, response, responses,
     calls, total, resolution >>

\* the variables of the mode-list construction and of the re-ranking
planVars ==
  << prefs, requestedModes, restrictToMentionedModes, mode, resultJourneys,
     orderedJourneys, topJourneys, journeysWithDescriptions, joinPending >>

\* the variables of the application of a helper function
helperVars == << arg, result >>

\* the variables of enhanceLegsWithArrivals
enrichVars ==
  << journey, nrEnabled, requests, answers, arrivals, nrByCrs, nrPending,
     linePending, enhanced >>

\* the variables outside the request handler's own steps
\* the variables of the service of a second request
concVars == << suspended, running >>

auxVars == << helperVars, enrichVars, concVars >>

\* ------------------------------------------------------------- data sets
Min(a, b) == IF a < b THEN a ELSE b

SeqsUpTo(S, n) == UNION { [1..k -> S] : k \in 0..n }

\* via lists of up to n entries: a first entry of any kind, place names behind it
ViaLists(kinds, n) ==
  { v \in SeqsUpTo(kinds, n) : \A i \in 2..Len(v) : v[i] = "name" }

\* body.from / body.to: absent (or empty), a "lat,lon" pair, or a place name
EndpointKinds == { "absent", "coords", "name" }

\* entries of body.via: blank after trim, a "lat,lon" pair, or a place name
Bodies ==
  { [nlq |-> TRUE, original |-> "Q", from |-> f, to |-> "absent", via |-> << >>] :
      f \in EndpointKinds }
  \cup
  { [nlq |-> FALSE, original |-> "", from |-> f, to |-> t, via |-> v] :
      f \in EndpointKinds, t \in EndpointKinds, v \in ViaLists({ "blank", "coords", "name" }, MaxVia) }

\* intent_confidence in hundredths
IntentConfidences == { 0, 29, 30 }

NoIntent ==
  [ confidence |-> 0, type |-> "none", hasJourney |-> FALSE,
    ambiguities |-> << >>, from |-> "none", to |-> "none", via |-> << >> ]

\* NLPJourneyIntent values the extractor may return.  from: no origin, the
\* current location, or a place name; via entries: a name or a blank name.
Intents ==
  { [ confidence |-> c, type |-> t, hasJourney |-> TRUE, ambiguities |-> a,
      from |-> f, to |-> d, via |-> v ] :
      c \in IntentConfidences, t \in { "journey_planning", "status" },
      a \in { << >>, << "which station?" >> },
      f \in { "none", "current", "name" }, d \in { "none", "name" },
      v \in ViaLists({ "blank", "name" }, MaxVia) }
  \cup
  { [ confidence |-> c, type |-> t, hasJourney |-> FALSE, ambiguities |-> a,
      from |-> "none", to |-> "none", via |-> << >> ] :
      c \in IntentConfidences, t \in { "journey_planning", "status" },
      a \in { << >>, << "which station?" >> } }

\* outcomes of one searchStopPoints call: fetchApi throws, or the matches
CallOutcomes == { "throw", "empty", "found" }
\* geocode() catches the provider's failures and returns []
GeocodeOutcomes == { "empty", "found" }
\* outcomes of one call of the language-model client: it rejects or resolves
AiOutcomes == { "throw", "ok" }

NoCalls ==
  [ parse |-> 0, clarify |-> 0, enhance |-> 0, search |-> 0, geocode |-> 0,
    plan |-> 0, describe |-> 0, enrich |-> 0 ]

Bump(n) == IF n < CallCap THEN n + 1 ELSE n
BumpBy(n, k) == IF n + k < CallCap THEN n + k ELSE CallCap

NoRequest == [ from |-> "null", to |-> "null", via |-> "null" ]

\* no endpoint was resolved by the last step
NoResolution ==
  [ endpoint |-> "none", expand |-> "none", search |-> "none",
    geocode |-> "none", loc |-> "null", err |-> "" ]

\* the endpoint a step has resolved: what the name expansion, the station
\* search and the geocoder answer for its name (expand is "none" where the
\* code does not expand the name), and the result r of the cascade
Resolved(ep, expand, e, s, g, r) ==
  [ endpoint |-> ep, expand |-> IF expand THEN e ELSE "none", search |-> s,
    geocode |-> g, loc |-> r.loc, err |-> r.err ]

\* ------------------------------------------------------------- responses
ErrorResponse(msg, code) ==
  [ status |-> "error", error |-> msg, code |-> code, data |-> << >> ]

AmbiguityResponse(ambiguities, questions) ==
  [ status |-> "error", error |-> Msg.NeedMoreInfo, code |-> 400,
    data |-> [ ambiguities |-> ambiguities, suggestions |-> questions ] ]

LocationRequiredResponse ==
  [ status |-> "error", error |-> Msg.LocationRequired, code |-> 400,
    data |-> [ message |-> "Starting location is required" ] ]

SuccessResponse(journeys) ==
  [ status |-> "success", error |-> "", code |-> 200,
    data |-> [ journeys |-> journeys, fromName |-> "from", toName |-> "to" ] ]


\* ------------------------------------------------ retry loop (pure parts)
\* let currentQuery = originalQuery
InitialQuery(q) == [ original |-> q, feedback |-> << >>, reports |-> << >> ]

\* const jsonFeedback = { lastError, guidance, allowedModes, defaultModes }
JsonFeedback(msg) ==
  [ lastError |-> msg, guidance |-> Guidance,
    allowedModes |-> ALLOWED_MODES, defaultModes |-> DEFAULT_MODES ]

RetryQueryAccumulating(q, msg, a) ==
  [ original |-> q.original,
    feedback |-> Append(q.feedback, JsonFeedback(msg)),
    reports |-> Append(q.reports, a) ]

\* currentQuery = `${originalQuery}\n\nJSON_FEEDBACK:\n${JSON.stringify(jsonFeedback)}...`
RetryQuery(q, msg, a) ==
  [ original |-> q.original,
    feedback |-> << JsonFeedback(msg) >>,
    reports |-> << a >> ]

ExtractorTextOriginal(original, current) == InitialQuery(original)

\* aiClient.parseJourneyIntent(currentQuery)
ExtractorText(original, current) == current

\* if (attempt < 4)
RetryAllowed(a) == a < LastRetryAttempt

\* attempt < 5
LoopContinues(a) == a < MaxAttempts

NextAttemptStuck(a) == a

\* attempt += 1
NextAttempt(a) == a + 1

FirstErrorKept(old, msg) == IF old = "null" THEN msg ELSE old

\* lastError = e
CaughtError(old, msg) == msg

\* error: lastError instanceof Error ? lastError.message : 'Failed to plan journey'
FinalErrorText(e) == IF e = "null" THEN Msg.FailedToPlan ELSE e

\* ------------------------------------------------------- intent gating
LowConfidenceLax(i) == i.confidence < ConfidenceThreshold \div 10

\* nlpIntent.intent_confidence < 0.3
LowConfidence(i) == i.confidence < ConfidenceThreshold

\* nlpIntent.type !== 'journey_planning' || !nlpIntent.journey
NotJourneyQuery(i) == i.type # "journey_planning" \/ ~i.hasJourney

\* nlpIntent.ambiguities && nlpIntent.ambiguities.length > 0
HasAmbiguities(i) == Len(i.ambiguities) > 0

\* ---------------------------------------------------- endpoint resolution
\* One endpoint: optional name expansion, station search, optional geocoder
\* fallback.  e, s, g are the outcomes of the three calls; the result names
\* the location found, the error thrown ("" for none) and the calls issued.
Cascade(expand, e, s, fallback, g, notFound) ==
  IF expand /\ e = "throw"
    THEN [ loc |-> "null", err |-> Msg.AiError,
           enhance |-> 1, search |-> 0, geocode |-> 0 ]
  ELSE IF s = "throw"
    THEN [ loc |-> "null", err |-> Msg.TflApiError,
           enhance |-> IF expand THEN 1 ELSE 0, search |-> 1, geocode |-> 0 ]
  ELSE IF s = "found"
    THEN [ loc |-> "stop", err |-> "",
           enhance |-> IF expand THEN 1 ELSE 0, search |-> 1, geocode |-> 0 ]
  ELSE IF ~fallback
    THEN [ loc |-> "null", err |-> notFound,
           enhance |-> IF expand THEN 1 ELSE 0, search |-> 1, geocode |-> 0 ]
  ELSE IF g = "found"
    THEN [ loc |-> "geo", err |-> "",
           enhance |-> IF expand THEN 1 ELSE 0, search |-> 1, geocode |-> 1 ]
  ELSE [ loc |-> "null", err |-> notFound,
         enhance |-> IF expand THEN 1 ELSE 0, search |-> 1, geocode |-> 1 ]

LastVia(v) == IF Len(v) = 0 THEN "none" ELSE v[Len(v)]

\* via[0], when the list has an entry
FirstVia(v) == IF Len(v) = 0 THEN "none" ELSE v[1]

\* a mutation of BothResolved: one resolved endpoint is enough
EitherResolved(f, t) == f # "null" \/ t # "null"

\* if (!fromLocation || !toLocation): both endpoints must be resolved
BothResolved(f, t) == f # "null" /\ t # "null"

AddCalls(c, r) ==
  [ c EXCEPT !.enhance = BumpBy(@, r.enhance),
             !.search = BumpBy(@, r.search),
             !.geocode = BumpBy(@, r.geocode) ]

\* ------------------------------------------------------------ enrichment
\* the planner's journeys, as returned in attempt a
PlannedJourneys(n, a) ==
  [ i \in 1..n |-> [ id |-> i, at |-> a, legs |-> "raw", description |-> "none" ] ]

TopJourneysAll(js) == js

\* orderedJourneys.slice(0, 3)
TopJourneys(js) == SubSeq(js, 1, Min(Len(js), MaxReturned))

\* { ...journey, legs: enhancedLegs, accessibleDescription }; the journeys
\* in failed are those whose description or enrichment promise rejected
WithDescriptions(js, failed) ==
  [ i \in 1..Len(js) |->
      IF i \in failed THEN js[i]
      ELSE [ js[i] EXCEPT !.legs = "enhanced", !.description = "text" ] ]

\* await Promise.all(...): rejects as soon as one of the promises rejects
JoinSucceeds(failed) == failed = {}

\* ------------------------------------------------ mode-list construction
\* const MODE_SYNONYMS: the keys in source order, each with the words the
\* key consists of and the mode it stands for
MODE_SYNONYMS ==
  << [ key |-> "underground", words |-> << "underground" >>, mode |-> "tube" ],
     [ key |-> "subway", words |-> << "subway" >>, mode |-> "tube" ],
     [ key |-> "metro", words |-> << "metro" >>, mode |-> "tube" ],
     [ key |-> "docklands light railway",
       words |-> << "docklands", "light", "railway" >>, mode |-> "dlr" ],
     [ key |-> "riverbus", words |-> << "riverbus" >>, mode |-> "river-bus" ],
     [ key |-> "river bus", words |-> << "river", "bus" >>, mode |-> "river-bus" ],
     [ key |-> "thames clipper", words |-> << "thames", "clipper" >>,
       mode |-> "river-bus" ],
     [ key |-> "thames clippers", words |-> << "thames", "clippers" >>,
       mode |-> "river-bus" ],
     [ key |-> "walk", words |-> << "walk" >>, mode |-> "walking" ],
     [ key |-> "on foot", words |-> << "on", "foot" >>, mode |-> "walking" ],
     [ key |-> "nr", words |-> << "nr" >>, mode |-> "national-rail" ],
     [ key |-> "national rail", words |-> << "national", "rail" >>,
       mode |-> "national-rail" ],
     [ key |-> "rail", words |-> << "rail" >>, mode |-> "national-rail" ],
     [ key |-> "train", words |-> << "train" >>, mode |-> "national-rail" ],
     [ key |-> "tram", words |-> << "tram" >>, mode |-> "tram" ],
     [ key |-> "buses", words |-> << "buses" >>, mode |-> "bus" ],
     [ key |-> "coach", words |-> << "coach" >>, mode |-> "coach" ],
     [ key |-> "coaches", words |-> << "coaches" >>, mode |-> "coach" ],
     [ key |-> "bike", words |-> << "bike" >>, mode |-> "cycle" ],
     [ key |-> "cycling", words |-> << "cycling" >>, mode |-> "cycle" ],
     [ key |-> "cable car", words |-> << "cable", "car" >>, mode |-> "cable-car" ],
     [ key |-> "dlr", words |-> << "dlr" >>, mode |-> "dlr" ],
     [ key |-> "overground", words |-> << "overground" >>, mode |-> "overground" ],
     [ key |-> "tube", words |-> << "tube" >>, mode |-> "tube" ],
     [ key |-> "bus", words |-> << "bus" >>, mode |-> "bus" ] >>

Range(seq) == { seq[i] : i \in DOMAIN seq }

\* raw mode strings a request body or an intent may carry
RawModes == { "tube", "bus", "Cycle ", "underground", "hovercraft" }

\* String(m || '').toLowerCase().trim(), on the raw mode strings
LowerTrim(m) ==
  CASE m = "Cycle " -> "cycle"
    [] m = " TUBE " -> "tube"
    [] m = "Underground" -> "underground"
    [] m = "  " -> ""
    [] OTHER -> m

\* MODE_SYNONYMS[m] || m
SynonymOf(m) ==
  IF \E i \in DOMAIN MODE_SYNONYMS : MODE_SYNONYMS[i].key = m
    THEN MODE_SYNONYMS[CHOOSE i \in DOMAIN MODE_SYNONYMS : MODE_SYNONYMS[i].key = m].mode
    ELSE m

\* ALLOWED_MODES.includes(m)
IsAllowedMode(m) == m \in Range(ALLOWED_MODES)

RECURSIVE Dedupe(_)
\* Array.from(new Set(list)): the first occurrence of each element is kept
Dedupe(list) ==
  IF list = << >> THEN << >>
  ELSE LET front == Dedupe(SubSeq(list, 1, Len(list) - 1))
           last == list[Len(list)]
       IN  IF last \in Range(front) THEN front ELSE Append(front, last)

NonEmpty(m) == m # ""

\* a mutation of normalizeTransportModes: duplicates are kept
normalizeTransportModesKeepingDuplicates(modes) ==
  LET lowered == [ i \in DOMAIN modes |-> LowerTrim(modes[i]) ]
      mapped == [ i \in DOMAIN SelectSeq(lowered, NonEmpty) |->
                    SynonymOf(SelectSeq(lowered, NonEmpty)[i]) ]
  IN  SelectSeq(mapped, IsAllowedMode)

\* normalizeTransportModes(modes), for an array
normalizeTransportModes(modes) ==
  LET lowered == [ i \in DOMAIN modes |-> LowerTrim(modes[i]) ]
      mapped == [ i \in DOMAIN SelectSeq(lowered, NonEmpty) |->
                    SynonymOf(SelectSeq(lowered, NonEmpty)[i]) ]
  IN  Dedupe(SelectSeq(mapped, IsAllowedMode))

\* String(query).toLowerCase(), word by word, on the words of Queries
LowerWord(w) ==
  CASE w = "Tube" -> "tube"
    [] w = "Prefer" -> "prefer"
    [] w = "Canary" -> "canary"
    [] w = "Wharf" -> "wharf"
    [] w = "Oxford" -> "oxford"
    [] w = "Circus" -> "circus"
    [] w = "Victoria" -> "victoria"
    [] w = "Bank" -> "bank"
    [] w = "Just" -> "just"
    [] w = "Wheelchair" -> "wheelchair"
    [] OTHER -> w

Haystack(query) == [ i \in DOMAIN query |-> LowerWord(query[i]) ]

\* new RegExp(`\\b${key}\\b`, 'i').test(haystack): the words of the key occur
\* in the text as whole words, one after the other
Occurs(words, haystack) ==
  \E i \in 1..(Len(haystack) - Len(words) + 1) :
    \A k \in 1..Len(words) : haystack[i + k - 1] = words[k]

\* const candidates = [...Object.keys(MODE_SYNONYMS), ...ALLOWED_MODES]
Candidates ==
  [ i \in DOMAIN MODE_SYNONYMS |->
      [ words |-> MODE_SYNONYMS[i].words, key |-> MODE_SYNONYMS[i].key ] ]
  \o [ i \in DOMAIN ALLOWED_MODES |->
         [ words |-> << ALLOWED_MODES[i] >>, key |-> ALLOWED_MODES[i] ] ]

\* extractModesFromQuery(query); a query is the sequence of its words
extractModesFromQuery(query) ==
  IF Len(query) = 0 THEN << >>
  ELSE LET matches(c) == Occurs(c.words, Haystack(query)) /\ IsAllowedMode(SynonymOf(c.key))
           found == SelectSeq(Candidates, matches)
       IN  Dedupe([ i \in DOMAIN found |-> SynonymOf(found[i].key) ])

\* a mutation of hasOnlyConstraint: the single marker words only
hasOnlyConstraintSingleWords(query) ==
  LET h == Haystack(query)
  IN  /\ Len(query) > 0
      /\ \E i \in DOMAIN h : h[i] \in { "only", "just", "strictly", "exclusively" }

\* hasOnlyConstraint(query)
hasOnlyConstraint(query) ==
  LET h == Haystack(query)
  IN  /\ Len(query) > 0
      /\ \/ \E i \in DOMAIN h : h[i] \in { "only", "just", "strictly", "exclusively" }
         \/ Occurs(<< "nothing", "but" >>, h)
         \/ \E m \in { "mode", "modes", "transport" } :
              Occurs(<< "no", m >>, h) \/ Occurs(<< "no", "other", m >>, h)

\* the words of currentQuery, words being those of the original query:
\* `${originalQuery}\n\nJSON_FEEDBACK:\n${JSON.stringify(jsonFeedback)}\n\n
\* Please return updated intent JSON only.`
CurrentQueryText(words, current) ==
  IF current.feedback = << >> THEN words
  ELSE LET fb == current.feedback[Len(current.feedback)]
       IN  words \o << "JSON_FEEDBACK", "lastError", fb.lastError, "guidance",
                       fb.guidance, "allowedModes" >>
                 \o fb.allowedModes \o << "defaultModes" >> \o fb.defaultModes
                 \o << "Please", "return", "updated", "intent", "JSON", "only" >>

\* a mutation of originalQuery: the text the extractor was given last
originalQueryWithFeedback(words, current) == CurrentQueryText(words, current)

\* const originalQuery = body.naturalLanguageQuery, the argument of
\* extractModesFromQuery and of hasOnlyConstraint in every attempt
originalQuery(words, current) == words

\* an optional mode list: absent (undefined or null) or an array
NoModes == [ present |-> FALSE, list |-> << >> ]

\* requestedModes: body.preferences?.modes || nlModes ||
\*   (modesMentionedInQuery.length > 0 ? modesMentionedInQuery : [...DEFAULT_MODES])
\* An array is truthy, the empty array included.
RequestedModes(p) ==
  LET modesMentionedInQuery ==
        normalizeTransportModes(extractModesFromQuery(p.query))
  IN  normalizeTransportModes(
        IF p.bodyModes.present THEN p.bodyModes.list
        ELSE IF p.nlModes.present THEN p.nlModes.list
        ELSE IF Len(modesMentionedInQuery) > 0 THEN modesMentionedInQuery
        ELSE DEFAULT_MODES)

\* hasOnlyConstraint(originalQuery) || preferences?.modePolicy === 'only'
RestrictToMentionedModes(p) ==
  hasOnlyConstraint(p.query) \/ p.modePolicy = "only"

AllowedModesAlwaysMerged(restrict, requested) ==
  normalizeTransportModes(Dedupe(DEFAULT_MODES \o requested))

\* const allowedModes = restrictToMentionedModes ? requestedModes : merged
AllowedModes(restrict, requested) ==
  IF restrict THEN requested
  ELSE normalizeTransportModes(Dedupe(DEFAULT_MODES \o requested))

\* manual path: normalizeTransportModes(body.preferences?.modes || [...DEFAULT_MODES])
ManualModes(p) ==
  normalizeTransportModes(
    IF p.bodyModes.present THEN p.bodyModes.list ELSE DEFAULT_MODES)

\* --------------------------------------------------------------- ranking
\* score(j): 2 for every leg whose mode is in the preferred set
Score(j, preferred) ==
  2 * Cardinality({ k \in DOMAIN j.legs : j.legs[k] \in preferred })

RECURSIVE InsertByScore(_, _, _)
\* j is placed behind the journeys whose score is not lower than its own
InsertByScore(j, sorted, preferred) ==
  IF sorted = << >> THEN << j >>
  ELSE IF Score(sorted[1], preferred) >= Score(j, preferred)
    THEN << sorted[1] >> \o InsertByScore(j, Tail(sorted), preferred)
    ELSE << j >> \o sorted

RECURSIVE SortByScore(_, _)
\* orderedJourneys.sort((a, b) => score(b) - score(a)); the sort is stable
SortByScore(js, preferred) ==
  IF js = << >> THEN << >>
  ELSE InsertByScore(js[Len(js)],
                     SortByScore(SubSeq(js, 1, Len(js) - 1), preferred),
                     preferred)

OrderedJourneysUnranked(js, restrict, requested) == js

\* let orderedJourneys = [...journeyResult.journeys];
\* if (!restrictToMentionedModes && requestedModes.length > 0) { ... sort ... }
OrderedJourneys(js, restrict, requested) ==
  IF ~restrict /\ Len(requested) > 0
    THEN SortByScore(js, Range(requested))
    ELSE js

\* ------------------------------------------------------------ rail codes
\* Identifiers and codes are sequences of characters; << >> is the empty
\* string and stands for an absent (undefined) value as well.
LowerLetters ==
  << "a", "b", "c", "d", "e", "f", "g", "h", "i", "j", "k", "l", "m",
     "n", "o", "p", "q", "r", "s", "t", "u", "v", "w", "x", "y", "z" >>

UpperLetters ==
  << "A", "B", "C", "D", "E", "F", "G", "H", "I", "J", "K", "L", "M",
     "N", "O", "P", "Q", "R", "S", "T", "U", "V", "W", "X", "Y", "Z" >>

IsLower(c) == c \in Range(LowerLetters)
IsUpper(c) == c \in Range(UpperLetters)

IndexIn(c, letters) == CHOOSE i \in DOMAIN letters : letters[i] = c

\* String.prototype.toUpperCase
toUpperCase(str) ==
  [ i \in DOMAIN str |->
      IF IsLower(str[i]) THEN UpperLetters[IndexIn(str[i], LowerLetters)] ELSE str[i] ]

\* String.prototype.toLowerCase
toLowerCase(str) ==
  [ i \in DOMAIN str |->
      IF IsUpper(str[i]) THEN LowerLetters[IndexIn(str[i], UpperLetters)] ELSE str[i] ]

\* /^[A-Z]{3}$/.test(str)
IsThreeUpper(str) == Len(str) = 3 /\ \A i \in 1..3 : IsUpper(str[i])

\* str.match(/^910G([A-Z]{3})/i): the captured group, << >> without a match
Match910G(str) ==
  IF /\ Len(str) >= 7
     /\ SubSeq(str, 1, 3) = << "9", "1", "0" >>
     /\ (str[4] = "G" \/ str[4] = "g")
     /\ \A i \in 5..7 : IsUpper(str[i]) \/ IsLower(str[i])
    THEN SubSeq(str, 5, 7)
    ELSE << >>

NoCode == << >>

\* the first operand of a || chain that is not falsy
OrElse(a, b) == IF a # << >> THEN a ELSE b

\* the keys the property loop accepts: 'crs' and 'crscode'
CrsKeys == { << "c", "r", "s" >>, << "c", "r", "s", "c", "o", "d", "e" >> }

\* a mutation of extractCrsFromStopPoint: the parent station is asked first
extractCrsFromStopPointParentFirst(stopPoint) ==
  IF ~stopPoint.present THEN NoCode
  ELSE IF IsThreeUpper(stopPoint.icsCode) THEN toUpperCase(stopPoint.icsCode)
  ELSE LET hit(p) == /\ toLowerCase(p.key) \in CrsKeys
                     /\ IsThreeUpper(toUpperCase(p.value))
           hits == SelectSeq(stopPoint.additionalProperties, hit)
           naptan == OrElse(stopPoint.naptanId, stopPoint.id)
       IN  IF hits # << >> THEN toUpperCase(hits[1].value)
           ELSE IF Match910G(stopPoint.stationNaptan) # << >>
             THEN toUpperCase(Match910G(stopPoint.stationNaptan))
           ELSE IF Match910G(naptan) # << >> THEN toUpperCase(Match910G(naptan))
           ELSE NoCode

\* extractCrsFromStopPoint(stopPoint)
extractCrsFromStopPoint(stopPoint) ==
  IF ~stopPoint.present THEN NoCode
  ELSE IF IsThreeUpper(stopPoint.icsCode) THEN toUpperCase(stopPoint.icsCode)
  ELSE LET hit(p) == /\ toLowerCase(p.key) \in CrsKeys
                     /\ IsThreeUpper(toUpperCase(p.value))
           hits == SelectSeq(stopPoint.additionalProperties, hit)
           naptan == OrElse(stopPoint.naptanId, stopPoint.id)
       IN  IF hits # << >> THEN toUpperCase(hits[1].value)
           ELSE IF Match910G(naptan) # << >> THEN toUpperCase(Match910G(naptan))
           ELSE IF Match910G(stopPoint.stationNaptan) # << >>
             THEN toUpperCase(Match910G(stopPoint.stationNaptan))
           ELSE NoCode

\* ---------------------------------------------------------- live arrivals
\* A leg is [ mode, modeName, line, departurePoint, arrivalPoint ]: mode.id,
\* mode.name and routeOptions[0].lineIdentifier.id are strings, "" when
\* absent.  A prediction is [ id, naptanId, lineId, timeToStation,
\* platformName ]; a departure and a chosen arrival are [ id, timeToStation,
\* platformName ].
isWalkingLegNever(leg) == FALSE

\* isWalkingLeg(leg)
isWalkingLeg(leg) == leg.mode = "walking"

Indices(legs) == [ i \in DOMAIN legs |-> i ]

\* journey.legs.filter((leg) => !isWalkingLeg(leg)), as positions in the legs
NonWalkingLegs(legs) ==
  LET nonWalking(i) == ~isWalkingLeg(legs[i])
  IN  SelectSeq(Indices(legs), nonWalking)

\* leg.departurePoint?.naptanId || leg.departurePoint?.id
StopPointId(leg) == OrElse(leg.departurePoint.naptanId, leg.departurePoint.id)

\* leg.departurePoint?.stationNaptan
ParentStationId(leg) == leg.departurePoint.stationNaptan

\* lineId.toLowerCase(), on the line identifiers of the legs and predictions
LowerLine(l) == IF l = "Victoria" THEN "victoria" ELSE l

\* routeOptions?.[0]?.lineIdentifier?.id || mode?.id || mode?.name, in
\* lower case; "" for undefined
LineId(leg) ==
  LowerLine(IF leg.line # "" THEN leg.line
            ELSE IF leg.mode # "" THEN leg.mode
            ELSE leg.modeName)

\* [stopPointId, parentStationId].filter(Boolean)
CandidateStopIds(leg) ==
  { StopPointId(leg), ParentStationId(leg) } \ { << >> }

RECURSIVE Concat(_)
Concat(lists) ==
  IF lists = << >> THEN << >> ELSE Head(lists) \o Concat(Tail(lists))

\* a mutation of StopPointIds: the parent stations are left out
StopPointIdsWithoutParents(legs) ==
  LET nw == NonWalkingLegs(legs)
      ids(leg) == IF StopPointId(leg) # << >> THEN << StopPointId(leg) >> ELSE << >>
  IN  Dedupe(Concat([ k \in DOMAIN nw |-> ids(legs[nw[k]]) ]))

\* Array.from(stopPointIds): the stop and parent-station identifiers added
\* for the non-walking legs, in insertion order
StopPointIds(legs) ==
  LET nw == NonWalkingLegs(legs)
      ids(leg) ==
        (IF StopPointId(leg) # << >> THEN << StopPointId(leg) >> ELSE << >>)
        \o (IF ParentStationId(leg) # << >> THEN << ParentStationId(leg) >> ELSE << >>)
  IN  Dedupe(Concat([ k \in DOMAIN nw |-> ids(legs[nw[k]]) ]))

\* extractCrsFromStopPoint(leg.departurePoint) || extractCrsFromStopPoint(leg.arrivalPoint)
LegCrs(leg) ==
  OrElse(extractCrsFromStopPoint(leg.departurePoint),
         extractCrsFromStopPoint(leg.arrivalPoint))

\* a mutation of NrCrsSet: one entry per national-rail leg
NrCrsPerLeg(legs) ==
  LET nw == NonWalkingLegs(legs)
      code(leg) ==
        IF leg.mode = "national-rail" /\ LegCrs(leg) # NoCode
          THEN << LegCrs(leg) >> ELSE << >>
  IN  Concat([ k \in DOMAIN nw |-> code(legs[nw[k]]) ])

\* Array.from(nrCrsSet): the rail codes of the national-rail legs
NrCrsSet(legs) ==
  LET nw == NonWalkingLegs(legs)
      code(leg) ==
        IF leg.mode = "national-rail" /\ LegCrs(leg) # NoCode
          THEN << LegCrs(leg) >> ELSE << >>
  IN  Dedupe(Concat([ k \in DOMAIN nw |-> code(legs[nw[k]]) ]))

RECURSIVE InsertByTime(_, _)
\* p is placed behind the entries whose timeToStation is not greater
InsertByTime(p, sorted) ==
  IF sorted = << >> THEN << p >>
  ELSE IF sorted[Len(sorted)].timeToStation <= p.timeToStation
    THEN Append(sorted, p)
  ELSE Append(InsertByTime(p, SubSeq(sorted, 1, Len(sorted) - 1)),
              sorted[Len(sorted)])

RECURSIVE SortByTime(_)
\* sort((a, b) => a.timeToStation - b.timeToStation), which is stable
SortByTime(list) ==
  IF list = << >> THEN << >>
  ELSE InsertByTime(list[Len(list)], SortByTime(SubSeq(list, 1, Len(list) - 1)))

\* slice(0, 3)
FirstArrivals(list) == SubSeq(list, 1, Min(Len(list), MaxArrivals))

\* mapPrediction(prediction), and the mapping of a departure
mapPrediction(p) ==
  [ id |-> p.id, timeToStation |-> p.timeToStation, platformName |-> p.platformName ]

MapPredictions(list) == [ i \in DOMAIN list |-> mapPrediction(list[i]) ]

\* filterFromCache(preds), for the candidate stops of a leg
filterFromCache(preds, leg) ==
  LET atStop(p) == p.naptanId \in CandidateStopIds(leg)
  IN  SortByTime(SelectSeq(preds, atStop))

\* a mutation of Caught: the failure of a provider call rejects
Uncaught(ans) == [ rejected |-> ans.failed, list |-> ans.list ]

\* try { await call } catch { }: a failed provider call yields nothing
Caught(ans) ==
  [ rejected |-> FALSE, list |-> IF ans.failed THEN << >> ELSE ans.list ]

\* platformName of the first entry, "" for undefined
FirstPlatform(list) == IF list = << >> THEN "" ELSE list[1].platformName

\* "If National Rail leg, prefer NR live departures using CRS"
NrArrivals(leg, byCrs, enabled) ==
  IF /\ leg.mode = "national-rail"
     /\ enabled
     /\ LegCrs(leg) # NoCode
     /\ LegCrs(leg) \in DOMAIN byCrs
    THEN [ set |-> TRUE, list |-> FirstArrivals(byCrs[LegCrs(leg)]) ]
    ELSE [ set |-> FALSE, list |-> << >> ]

\* a mutation of FromCache: any line at the stop is preferred
FromCacheAnyLineFirst(leg, sorted, start) ==
  IF start # << >> THEN start
  ELSE MapPredictions(FirstArrivals(filterFromCache(sorted, leg)))

\* relevantArrivals before the last resort: the departures already chosen,
\* else the cached arrivals of the same line at the candidate stops, else
\* the cached arrivals of any line at the candidate stops
FromCache(leg, sorted, start) ==
  LET sameLine(p) == LowerLine(p.lineId) = LineId(leg)
      first == IF LineId(leg) # "" /\ start = << >>
                 THEN MapPredictions(
                        FirstArrivals(SelectSeq(filterFromCache(sorted, leg), sameLine)))
                 ELSE start
  IN  IF first = << >>
        THEN MapPredictions(FirstArrivals(filterFromCache(sorted, leg)))
        ELSE first

BaseKeys == { "fromName", "toName", "distanceSummary" }

\* The async function of one leg up to its first await: enhancements holds
\* the fields assigned so far, awaiting tells that getLineArrivals is called.
EnhanceLeg(leg, sorted, byCrs, enabled) ==
  IF isWalkingLeg(leg)
    THEN [ leg |-> leg, keys |-> BaseKeys \cup { "googleMapsUrl" },
           nextArrivals |-> << >>, platformName |-> "", awaiting |-> FALSE ]
  ELSE LET nr == NrArrivals(leg, byCrs, enabled)
           relevant == FromCache(leg, sorted, nr.list)
       IN  IF StopPointId(leg) # << >>
             THEN [ leg |-> leg,
                    keys |-> BaseKeys \cup { "nextArrivals", "platformName", "direction" },
                    nextArrivals |-> relevant,
                    platformName |-> FirstPlatform(relevant),
                    awaiting |-> relevant = << >> /\ LineId(leg) # "" ]
             ELSE [ leg |-> leg,
                    keys |-> BaseKeys \cup { "direction" } \cup
                             (IF nr.set THEN { "nextArrivals", "platformName" } ELSE {}),
                    nextArrivals |-> nr.list,
                    platformName |-> FirstPlatform(nr.list),
                    awaiting |-> FALSE ]

\* the leg's function after getLineArrivals has answered
AfterLineArrivals(e, list) ==
  LET relevant == MapPredictions(FirstArrivals(filterFromCache(list, e.leg)))
  IN  [ e EXCEPT !.nextArrivals = relevant,
                 !.platformName = FirstPlatform(relevant),
                 !.awaiting = FALSE ]

\* ------------------------------------------------------ control transfer
Goto(p) ==
  /\ pc' = p
  /\ UNCHANGED planVars
  /\ UNCHANGED auxVars
  /\ UNCHANGED << attempt, currentQuery, lastError, thrown, allPrevNoJourneys,
                  locationRequired, extractorInput, response, responses >>

\* return NextResponse.json(r)
Respond(r) ==
  /\ pc' = "done"
  /\ response' = r
  /\ responses' = responses + 1
  /\ UNCHANGED planVars
  /\ UNCHANGED auxVars
  /\ UNCHANGED << attempt, currentQuery, lastError, thrown, allPrevNoJourneys,
                  locationRequired, extractorInput >>

\* the values of the current attempt that a throwing step has changed
Scope == [ calls |-> calls, total |-> total,
           planRequest |-> planRequest, planOutcome |-> planOutcome ]

\* return after the loop: "If all attempts failed"
AllFailed(sc) ==
  /\ pc' = "done"
  /\ response' = ErrorResponse(FinalErrorText(lastError'), 400)
  /\ responses' = responses + 1
  /\ calls' = sc.calls
  /\ total' = sc.total
  /\ planRequest' = sc.planRequest
  /\ planOutcome' = sc.planOutcome
  /\ UNCHANGED << extractorInput, intent, fromLocation, toLocation, journeyResult >>

\* The catch block of the retry loop.  On a retry the loop goes round without
\* suspending: the next attempt resets the endpoints and issues its
\* parseJourneyIntent call, whose answer NLParse receives.
NLCatch(msg, sc) ==
  /\ lastError' = CaughtError(lastError, msg)
  /\ thrown' = [ msg |-> msg, at |-> attempt ]
  /\ allPrevNoJourneys' = (allPrevNoJourneys /\ msg = Msg.NoJourneys)
  /\ locationRequired' = (locationRequired \/ msg = Msg.LocationRequired)
  /\ UNCHANGED << body, viaLocation >>
  /\ UNCHANGED planVars
  /\ UNCHANGED auxVars
  /\ IF RetryAllowed(attempt)
       THEN /\ currentQuery' = RetryQuery(currentQuery, msg, attempt)
            /\ attempt' = NextAttempt(attempt)
            /\ IF LoopContinues(attempt')
                 THEN /\ pc' = "parse"
                      /\ fromLocation' = "null"
                      /\ toLocation' = "null"
                      /\ intent' = NoIntent
                      /\ planRequest' = NoRequest
                      /\ planOutcome' = "none"
                      /\ journeyResult' = << >>
                      /\ extractorInput' =
                           [ query |-> ExtractorText(body.original, currentQuery'),
                             at |-> attempt' ]
                      /\ calls' = [ NoCalls EXCEPT !.parse = 1 ]
                      /\ total' = [ sc.total EXCEPT !.parse = Bump(@) ]
                      /\ UNCHANGED << response, responses >>
                 ELSE AllFailed(sc)
       ELSE /\ UNCHANGED << currentQuery, attempt >>
            /\ AllFailed(sc)

\* the catch block around the whole handler
OuterCatch(msg) == Respond(ErrorResponse(msg, 500))

\* ------------------------------------------------------------------ Init
\* the handler's variables when it starts on the request body
Fresh(b) ==
  LET query == InitialQuery(b.original)
  IN  [ started |-> TRUE,
        body |-> b,
        pc |-> IF b.nlq THEN "parse" ELSE "mfrom",
        attempt |-> 0,
        currentQuery |-> query,
        lastError |-> "null",
        thrown |-> [ msg |-> "", at |-> -1 ],
        allPrevNoJourneys |-> TRUE,
        locationRequired |-> FALSE,
        extractorInput |->
          IF b.nlq
            THEN [ query |-> ExtractorText(b.original, query), at |-> 0 ]
            ELSE [ query |-> "", at |-> -1 ],
        intent |-> NoIntent,
        fromLocation |-> "null",
        toLocation |-> "null",
        viaLocation |-> "null",
        planRequest |-> NoRequest,
        planOutcome |-> "none",
        journeyResult |-> << >>,
        response |-> [ status |-> "none", error |-> "", code |-> 0, data |-> << >> ],
        responses |-> 0,
        calls |-> IF b.nlq THEN [ NoCalls EXCEPT !.parse = 1 ] ELSE NoCalls,
        total |-> [ parse |-> IF b.nlq THEN 1 ELSE 0, plan |-> 0 ],
        resolution |-> NoResolution ]

\* the locals of POST are those of a fresh invocation for the body
HandlerStart ==
  LET f == Fresh(body)
  IN  /\ attempt = f.attempt
      /\ currentQuery = f.currentQuery
      /\ lastError = f.lastError
      /\ thrown = f.thrown
      /\ allPrevNoJourneys = f.allPrevNoJourneys
      /\ locationRequired = f.locationRequired
      /\ extractorInput = f.extractorInput
      /\ intent = f.intent
      /\ fromLocation = f.fromLocation
      /\ toLocation = f.toLocation
      /\ viaLocation = f.viaLocation
      /\ planRequest = f.planRequest
      /\ planOutcome = f.planOutcome
      /\ journeyResult = f.journeyResult
      /\ response = f.response
      /\ responses = f.responses
      /\ calls = f.calls
      /\ total = f.total
      /\ resolution = f.resolution

\* the running invocation continues with the locals f
Continue(f) ==
  /\ body' = f.body
  /\ pc' = f.pc
  /\ attempt' = f.attempt
  /\ currentQuery' = f.currentQuery
  /\ lastError' = f.lastError
  /\ thrown' = f.thrown
  /\ allPrevNoJourneys' = f.allPrevNoJourneys
  /\ locationRequired' = f.locationRequired
  /\ extractorInput' = f.extractorInput
  /\ intent' = f.intent
  /\ fromLocation' = f.fromLocation
  /\ toLocation' = f.toLocation
  /\ viaLocation' = f.viaLocation
  /\ planRequest' = f.planRequest
  /\ planOutcome' = f.planOutcome
  /\ journeyResult' = f.journeyResult
  /\ response' = f.response
  /\ responses' = f.responses
  /\ calls' = f.calls
  /\ total' = f.total
  /\ resolution' = f.resolution
  /\ UNCHANGED << planVars, helperVars, enrichVars >>

\* one request is served
Alone ==
  /\ suspended = [ started |-> FALSE, body |-> << >> ]
  /\ running = 1

NoPrefs ==
  [ path |-> "none", bodyModes |-> NoModes, nlModes |-> NoModes,
    modePolicy |-> "absent", query |-> << >> ]

\* no mode list is under construction and no planner answer is being ranked
PlanIdle ==
  /\ prefs = NoPrefs
  /\ requestedModes = << >>
  /\ restrictToMentionedModes = FALSE
  /\ mode = << >>
  /\ resultJourneys = << >>
  /\ orderedJourneys = << >>
  /\ topJourneys = << >>
  /\ journeysWithDescriptions = << >>
  /\ joinPending = {}

\* no helper function is under application
HelperIdle ==
  /\ arg = << >>
  /\ result = << >>

NoRequests == [ batched |-> << >>, nr |-> << >>, line |-> << >> ]

NoAnswers == [ batched |-> << >>, nr |-> << >>, line |-> << >> ]

\* no itinerary is under enrichment
EnrichIdle ==
  /\ journey = << >>
  /\ nrEnabled = FALSE
  /\ requests = NoRequests
  /\ answers = NoAnswers
  /\ arrivals = << >>
  /\ nrByCrs = << >>
  /\ nrPending = {}
  /\ linePending = {}
  /\ enhanced = << >>

Init ==
  /\ body \in Bodies
  /\ pc = IF body.nlq THEN "parse" ELSE "mfrom"
  /\ HandlerStart
  /\ Alone
  /\ PlanIdle
  /\ HelperIdle
  /\ EnrichIdle

\* ------------------------------------------------ natural-language path
\* The intent extractor answers the call of the current attempt; the parsed
\* intent passes through the confidence, kind and ambiguity gates.
NLParse ==
  /\ pc = "parse"
  /\ resolution' = NoResolution
  /\ \/ NLCatch(Msg.AiError, Scope)
     \/ /\ \E i \in Intents :
             /\ intent' = i
             /\ IF LowConfidence(i)
                  THEN Respond(ErrorResponse(Msg.LowConfidence, 400))
                ELSE IF NotJourneyQuery(i)
                  THEN Respond(ErrorResponse(Msg.NotJourney, 400))
                ELSE IF HasAmbiguities(i)
                  THEN Goto("clarify")
                ELSE Goto("from")
        /\ UNCHANGED << body, fromLocation, toLocation, viaLocation, planRequest,
                        planOutcome, journeyResult, calls, total >>

\* aiClient.clarifyAmbiguousQuery(originalQuery, nlpIntent.ambiguities): the
\* call resolves with the questions, or rejects inside the try block
NLClarify ==
  /\ pc = "clarify"
  /\ resolution' = NoResolution
  /\ LET c == [ calls EXCEPT !.clarify = Bump(@) ]
     IN  \/ /\ calls' = c
            /\ Respond(AmbiguityResponse(intent.ambiguities, << "question" >>))
            /\ UNCHANGED << body, intent, fromLocation, toLocation, viaLocation,
                            planRequest, planOutcome, journeyResult, total >>
         \/ NLCatch(Msg.AiError, [ Scope EXCEPT !.calls = c ])

\* Resolve FROM
NLResolveFrom ==
  /\ pc = "from"
  /\ \/ /\ intent.from = "current"
        /\ body.from = "absent"
        /\ resolution' = NoResolution
        /\ NLCatch(Msg.LocationRequired, Scope)
     \/ /\ intent.from = "current"
        /\ body.from = "coords"
        /\ fromLocation' = "coords"
        /\ resolution' = NoResolution
        /\ UNCHANGED calls
        /\ Goto("to")
        /\ UNCHANGED << body, intent, toLocation, viaLocation, planRequest,
                        planOutcome, journeyResult, total >>
     \/ /\ intent.from = "current"
        /\ body.from = "name"
        /\ \E s \in CallOutcomes, g \in GeocodeOutcomes :
             LET r == Cascade(FALSE, "ok", s, FALSE, g, Msg.CouldNotResolveStart)
             IN  /\ resolution' = Resolved("from", FALSE, "ok", s, g, r)
                 /\ IF r.err # ""
                      THEN NLCatch(r.err, [ Scope EXCEPT !.calls = AddCalls(calls, r) ])
                      ELSE /\ fromLocation' = r.loc
                           /\ calls' = AddCalls(calls, r)
                           /\ Goto("to")
                           /\ UNCHANGED << body, intent, toLocation, viaLocation,
                                           planRequest, planOutcome, journeyResult,
                                           total >>
     \/ /\ intent.from = "name"
        /\ \E e \in AiOutcomes, s \in CallOutcomes, g \in GeocodeOutcomes :
             LET r == Cascade(TRUE, e, s, TRUE, g, Msg.CouldNotFindLocation)
             IN  /\ resolution' = Resolved("from", TRUE, e, s, g, r)
                 /\ IF r.err # ""
                      THEN NLCatch(r.err, [ Scope EXCEPT !.calls = AddCalls(calls, r) ])
                      ELSE /\ fromLocation' = r.loc
                           /\ calls' = AddCalls(calls, r)
                           /\ Goto("to")
                           /\ UNCHANGED << body, intent, toLocation, viaLocation,
                                           planRequest, planOutcome, journeyResult,
                                           total >>
     \/ /\ intent.from = "none"
        /\ resolution' = NoResolution
        /\ Goto("to")
        /\ UNCHANGED << body, intent, fromLocation, toLocation, viaLocation,
                        planRequest, planOutcome, journeyResult, calls, total >>

\* Resolve TO, then require both endpoints
NLResolveTo ==
  /\ pc = "to"
  /\ \/ /\ intent.to = "none"
        /\ resolution' = NoResolution
        /\ NLCatch(Msg.DestinationRequired, Scope)
     \/ /\ intent.to = "name"
        /\ \E e \in AiOutcomes, s \in CallOutcomes, g \in GeocodeOutcomes :
             LET r == Cascade(TRUE, e, s, TRUE, g, Msg.CouldNotFindDestination)
                 sc == [ Scope EXCEPT !.calls = AddCalls(calls, r) ]
             IN  /\ resolution' = Resolved("to", TRUE, e, s, g, r)
                 /\ IF r.err # ""
                      THEN NLCatch(r.err, sc)
                    ELSE IF ~BothResolved(fromLocation, r.loc)
                      THEN NLCatch(Msg.BothRequired, sc)
                    ELSE /\ toLocation' = r.loc
                         /\ calls' = sc.calls
                         /\ Goto("via")
                         /\ UNCHANGED << body, intent, fromLocation, viaLocation,
                                         planRequest, planOutcome, journeyResult,
                                         total >>

\* Resolve VIA (first via only).  viaLocation is declared outside the loop:
\* it is not reset by a new attempt and keeps its value when the via of this
\* attempt is not resolved.
NLResolveVia ==
  /\ pc = "via"
  /\ \/ /\ FirstVia(intent.via) = "name"
        /\ \E e \in AiOutcomes, s \in CallOutcomes, g \in GeocodeOutcomes :
             LET r == Cascade(TRUE, e, s, TRUE, g, "")
             IN  /\ resolution' = Resolved("via", TRUE, e, s, g, r)
                 /\ IF r.err # ""
                      THEN NLCatch(r.err, [ Scope EXCEPT !.calls = AddCalls(calls, r) ])
                      ELSE /\ viaLocation' = IF r.loc # "null" THEN r.loc ELSE viaLocation
                           /\ calls' = AddCalls(calls, r)
                           /\ Goto("plan")
                           /\ UNCHANGED << body, intent, fromLocation, toLocation,
                                           planRequest, planOutcome, journeyResult,
                                           total >>
     \/ /\ FirstVia(intent.via) \in { "none", "blank" }
        /\ resolution' = NoResolution
        /\ Goto("plan")
        /\ UNCHANGED << body, intent, fromLocation, toLocation, viaLocation,
                        planRequest, planOutcome, journeyResult, calls, total >>

\* tflClient.planJourney(journeyParams) and the empty-result check
NLPlan ==
  /\ pc = "plan"
  /\ resolution' = NoResolution
  /\ LET req == [ from |-> fromLocation, to |-> toLocation, via |-> viaLocation ]
         sc(o) == [ calls |-> [ calls EXCEPT !.plan = Bump(@) ],
                    total |-> [ total EXCEPT !.plan = Bump(@) ],
                    planRequest |-> req, planOutcome |-> o ]
     IN  \/ NLCatch(Msg.TflApiError, sc("throw"))
         \/ \E o \in { "missing", "empty" } : NLCatch(Msg.NoJourneys, sc(o))
         \/ \E n \in 1..MaxJourneys :
              /\ planRequest' = req
              /\ planOutcome' = "ok"
              /\ calls' = sc("ok").calls
              /\ total' = sc("ok").total
              /\ journeyResult' = PlannedJourneys(n, attempt)
              /\ Goto("enrich")
              /\ UNCHANGED << body, intent, fromLocation, toLocation, viaLocation >>

\* Promise.all over the top journeys of description generation and
\* enhanceLegsWithArrivals, then the success response.  failed is the set of
\* journeys for which a promise of the pair rejected (the language-model call
\* generateAccessibleDescription is awaited without a guard).
NLEnrich ==
  /\ pc = "enrich"
  /\ resolution' = NoResolution
  /\ LET top == TopJourneys(journeyResult)
         c == [ calls EXCEPT !.describe = BumpBy(@, Len(top)),
                             !.enrich = BumpBy(@, Len(top)) ]
     IN  \E failed \in SUBSET (1..Len(top)) :
           IF JoinSucceeds(failed)
             THEN /\ calls' = c
                  /\ Respond(SuccessResponse(WithDescriptions(top, failed)))
                  /\ UNCHANGED << body, intent, fromLocation, toLocation,
                                  viaLocation, planRequest, planOutcome,
                                  journeyResult, total >>
             ELSE NLCatch(Msg.AiError, [ Scope EXCEPT !.calls = c ])

\* ------------------------------------------------------------ manual path
ManualFromAfterDestination ==
  /\ pc = "mfrom"
  /\ UNCHANGED << body, intent, toLocation, viaLocation, planRequest,
                  planOutcome, journeyResult, total >>
  /\ \/ /\ body.to = "absent"
        /\ resolution' = NoResolution
        /\ UNCHANGED << fromLocation, calls >>
        /\ Respond(ErrorResponse(Msg.DestinationRequired, 400))
     \/ /\ body.to # "absent"
        /\ body.from = "absent"
        /\ resolution' = NoResolution
        /\ UNCHANGED fromLocation
        /\ calls' = IF body.to = "name"
                      THEN [ calls EXCEPT !.search = Bump(@) ] ELSE calls
        /\ Respond(LocationRequiredResponse)
     \/ /\ body.to # "absent"
        /\ body.from = "coords"
        /\ fromLocation' = "coords"
        /\ resolution' = NoResolution
        /\ UNCHANGED calls
        /\ Goto("mto")
     \/ /\ body.to # "absent"
        /\ body.from = "name"
        /\ \E s \in CallOutcomes, g \in GeocodeOutcomes :
             LET r == Cascade(FALSE, "ok", s, FALSE, g, Msg.CouldNotFindStart)
             IN  /\ fromLocation' = r.loc
                 /\ resolution' = Resolved("from", FALSE, "ok", s, g, r)
                 /\ calls' = AddCalls(calls, r)
                 /\ IF s = "throw" THEN OuterCatch(r.err)
                    ELSE IF r.err # "" THEN Respond(ErrorResponse(r.err, 400))
                    ELSE Goto("mto")

\* Destination check and "Handle FROM location"
ManualFrom ==
  /\ pc = "mfrom"
  /\ UNCHANGED << body, intent, toLocation, viaLocation, planRequest,
                  planOutcome, journeyResult, total >>
  /\ \/ /\ body.to = "absent"
        /\ resolution' = NoResolution
        /\ UNCHANGED << fromLocation, calls >>
        /\ Respond(ErrorResponse(Msg.DestinationRequired, 400))
     \/ /\ body.to # "absent"
        /\ body.from = "absent"
        /\ resolution' = NoResolution
        /\ UNCHANGED << fromLocation, calls >>
        /\ Respond(LocationRequiredResponse)
     \/ /\ body.to # "absent"
        /\ body.from = "coords"
        /\ fromLocation' = "coords"
        /\ resolution' = NoResolution
        /\ UNCHANGED calls
        /\ Goto("mto")
     \/ /\ body.to # "absent"
        /\ body.from = "name"
        /\ \E s \in CallOutcomes, g \in GeocodeOutcomes :
             LET r == Cascade(FALSE, "ok", s, FALSE, g, Msg.CouldNotFindStart)
             IN  /\ fromLocation' = r.loc
                 /\ resolution' = Resolved("from", FALSE, "ok", s, g, r)
                 /\ calls' = AddCalls(calls, r)
                 /\ IF s = "throw" THEN OuterCatch(r.err)
                    ELSE IF r.err # "" THEN Respond(ErrorResponse(r.err, 400))
                    ELSE Goto("mto")

\* "Handle TO location"
ManualTo ==
  /\ pc = "mto"
  /\ UNCHANGED << body, intent, fromLocation, viaLocation, planRequest,
                  planOutcome, journeyResult, total >>
  /\ \/ /\ body.to = "coords"
        /\ toLocation' = "coords"
        /\ resolution' = NoResolution
        /\ UNCHANGED calls
        /\ Goto("mvia")
     \/ /\ body.to = "name"
        /\ \E s \in CallOutcomes, g \in GeocodeOutcomes :
             LET r == Cascade(FALSE, "ok", s, FALSE, g, Msg.CouldNotFindDestination)
             IN  /\ toLocation' = r.loc
                 /\ resolution' = Resolved("to", FALSE, "ok", s, g, r)
                 /\ calls' = AddCalls(calls, r)
                 /\ IF s = "throw" THEN OuterCatch(r.err)
                    ELSE IF r.err # "" THEN Respond(ErrorResponse(r.err, 400))
                    ELSE Goto("mvia")

\* "Handle VIA from manual request (first item only)"
ManualVia ==
  /\ pc = "mvia"
  /\ UNCHANGED << body, intent, fromLocation, toLocation, planRequest,
                  planOutcome, journeyResult, total >>
  /\ \/ /\ FirstVia(body.via) \in { "none", "blank" }
        /\ resolution' = NoResolution
        /\ UNCHANGED << viaLocation, calls >>
        /\ Goto("mplan")
     \/ /\ FirstVia(body.via) = "coords"
        /\ viaLocation' = "coords"
        /\ resolution' = NoResolution
        /\ UNCHANGED calls
        /\ Goto("mplan")
     \/ /\ FirstVia(body.via) = "name"
        /\ \E s \in CallOutcomes, g \in GeocodeOutcomes :
             LET r == Cascade(FALSE, "ok", s, TRUE, g, "")
             IN  /\ viaLocation' = IF r.loc # "null" THEN r.loc ELSE viaLocation
                 /\ resolution' = Resolved("via", FALSE, "ok", s, g, r)
                 /\ calls' = AddCalls(calls, r)
                 /\ IF r.err # "" THEN OuterCatch(r.err) ELSE Goto("mplan")

ManualPlanRetries ==
  /\ pc = "mplan"
  /\ resolution' = NoResolution
  /\ UNCHANGED << body, intent, fromLocation, toLocation, viaLocation >>
  /\ planRequest' = [ from |-> fromLocation, to |-> toLocation, via |-> viaLocation ]
  /\ calls' = [ calls EXCEPT !.plan = Bump(@) ]
  /\ total' = [ total EXCEPT !.plan = Bump(@) ]
  /\ \/ /\ planOutcome' = "throw"
        /\ journeyResult' = << >>
        /\ Goto("mplan")
     \/ /\ planOutcome' = "missing"
        /\ journeyResult' = << >>
        /\ OuterCatch(Msg.TypeError)
     \/ \E n \in 0..MaxJourneys :
          /\ planOutcome' = IF n = 0 THEN "empty" ELSE "ok"
          /\ journeyResult' = PlannedJourneys(n, 0)
          /\ Goto("menrich")

\* "Ensure we have both locations" and tflClient.planJourney(journeyParams);
\* a result without a journeys list makes journeyResult.journeys.slice throw
ManualPlan ==
  /\ pc = "mplan"
  /\ resolution' = NoResolution
  /\ UNCHANGED << body, intent, fromLocation, toLocation, viaLocation >>
  /\ IF ~BothResolved(fromLocation, toLocation)
       THEN /\ UNCHANGED << planRequest, planOutcome, journeyResult, calls, total >>
            /\ Respond(ErrorResponse(Msg.BothRequired, 400))
       ELSE /\ planRequest' = [ from |-> fromLocation, to |-> toLocation,
                                via |-> viaLocation ]
            /\ calls' = [ calls EXCEPT !.plan = Bump(@) ]
            /\ total' = [ total EXCEPT !.plan = Bump(@) ]
            /\ \/ /\ planOutcome' = "throw"
                  /\ journeyResult' = << >>
                  /\ OuterCatch(Msg.TflApiError)
               \/ /\ planOutcome' = "missing"
                  /\ journeyResult' = << >>
                  /\ OuterCatch(Msg.TypeError)
               \/ \E n \in 0..MaxJourneys :
                    /\ planOutcome' = IF n = 0 THEN "empty" ELSE "ok"
                    /\ journeyResult' = PlannedJourneys(n, 0)
                    /\ Goto("menrich")

\* descriptions and enhanced legs of the top journeys, then the response
ManualEnrich ==
  /\ pc = "menrich"
  /\ resolution' = NoResolution
  /\ LET top == TopJourneys(journeyResult)
     IN  /\ calls' = [ calls EXCEPT !.describe = BumpBy(@, Len(top)),
                                    !.enrich = BumpBy(@, Len(top)) ]
         /\ \E failed \in SUBSET (1..Len(top)) :
              IF JoinSucceeds(failed)
                THEN Respond(SuccessResponse(WithDescriptions(top, failed)))
                ELSE OuterCatch(Msg.AiError)
  /\ UNCHANGED << body, intent, fromLocation, toLocation, viaLocation,
                  planRequest, planOutcome, journeyResult, total >>

\* ------------------------------------------------------- specifications
Next ==
  \/ NLParse
  \/ NLClarify
  \/ NLResolveFrom
  \/ NLResolveTo
  \/ NLResolveVia
  \/ NLPlan
  \/ NLEnrich
  \/ ManualFrom
  \/ ManualTo
  \/ ManualVia
  \/ ManualPlan
  \/ ManualEnrich

Spec == Init /\ [][Next]_vars

\* the handler runs on the event loop: a pending step is eventually taken
LiveSpec == Spec /\ WF_vars(Next)

\* -------------------------------------------- two requests served together
\* the locals of the invocation of POST that is running
Locals ==
  [ started |-> TRUE, body |-> body, pc |-> pc, attempt |-> attempt,
    currentQuery |-> currentQuery, lastError |-> lastError, thrown |-> thrown,
    allPrevNoJourneys |-> allPrevNoJourneys,
    locationRequired |-> locationRequired, extractorInput |-> extractorInput,
    intent |-> intent, fromLocation |-> fromLocation, toLocation |-> toLocation,
    viaLocation |-> viaLocation, planRequest |-> planRequest,
    planOutcome |-> planOutcome, journeyResult |-> journeyResult,
    response |-> response, responses |-> responses, calls |-> calls,
    total |-> total, resolution |-> resolution ]

\* The locals a continuation finds when it is resumed: those of its own
\* invocation, whatever the invocation that ran in between has written.
ClosureSharedVia(frame, current) ==
  [ frame EXCEPT !.viaLocation = current.viaLocation ]

Closure(frame, current) == frame

\* A natural-language request or a manual request without via entries is
\* being served, and a manual request with a via entry arrives.
ConcInit ==
  LET Manual(v) ==
        [nlq |-> FALSE, original |-> "", from |-> "name", to |-> "name", via |-> v]
  IN  /\ body \in { Manual(<< >>),
                    [nlq |-> TRUE, original |-> "Q", from |-> "absent",
                     to |-> "absent", via |-> << >>] }
      /\ pc = IF body.nlq THEN "parse" ELSE "mfrom"
      /\ HandlerStart
      /\ PlanIdle
      /\ HelperIdle
      /\ EnrichIdle
      /\ suspended = [ started |-> FALSE, body |-> Manual(<< "name" >>) ]
      /\ running = 1

\* a step of the request that is running; a natural-language request is
\* followed over its first ConcAttempts attempts
Serve ==
  /\ Next
  /\ attempt' < ConcAttempts

\* While the running request awaits a collaborator or after it has
\* responded, POST is invoked for the request that has arrived.
Accept ==
  /\ ~suspended.started
  /\ suspended' = Locals
  /\ running' = 2
  /\ Continue(Fresh(suspended.body))

\* While the running request awaits a collaborator or after it has
\* responded, the continuation of the other request is resumed.
Resume ==
  /\ suspended.started
  /\ suspended.pc # "done"
  /\ suspended' = Locals
  /\ running' = 3 - running
  /\ Continue(Closure(suspended, Locals))

ConcSpec == ConcInit /\ [][Serve \/ Accept \/ Resume]_vars

TypeOK ==
  /\ body \in Bodies
  /\ attempt \in 0..MaxAttempts
  /\ responses \in 0..1

\* ---------------------------------- construction of the planner's mode list
\* word sequences of natural-language queries
Query ==
  [
    TubeOnly |->
      << "Tube", "only", "from", "Canary", "Wharf", "to", "Oxford", "Circus" >>,
    PreferBus |-> << "Prefer", "bus", "from", "Victoria", "to", "Bank" >>,
    Plain |-> << "from", "Victoria", "to", "Bank" >>,
    NothingBut |-> << "nothing", "but", "the", "underground", "to", "Bank" >>,
    Strictly |-> << "strictly", "Victoria", "to", "Bank" >>,
    NoOtherModes |-> << "bike", "to", "Bank", "no", "other", "modes" >>,
    TubeOnlyVictoria |-> << "Tube", "only", "from", "Victoria", "to", "Bank" >>,
    Exclusively |-> << "exclusively", "by", "bus", "to", "Bank" >>,
    NoTransport |-> << "to", "Bank", "no", "transport" >>,
    NoMode |-> << "to", "Bank", "no", "mode" >>
  ]

Queries ==
  { Query.TubeOnly, Query.PreferBus, Query.Plain, Query.NothingBut, Query.Strictly,
    Query.NoOtherModes }

\* body.preferences?.modes and nlpIntent.journey.preferences?.mode
ModeInputs ==
  { NoModes } \cup
  { [ present |-> TRUE, list |-> l ] : l \in SeqsUpTo(RawModes, MaxModes) }

\* modePolicy is nlpIntent.journey.preferences?.modePolicy
Prefs ==
  { [ path |-> "nl", bodyModes |-> b, nlModes |-> n, modePolicy |-> m, query |-> q ] :
      b \in ModeInputs, n \in ModeInputs, m \in { "absent", "only", "prefer" }, q \in Queries }
  \cup
  { [ path |-> "manual", bodyModes |-> b, nlModes |-> NoModes,
      modePolicy |-> "absent", query |-> << >> ] : b \in ModeInputs }

\* a request whose endpoints are coordinates
ResolvedBody(nl) ==
  [ nlq |-> nl, original |-> IF nl THEN "Q" ELSE "", from |-> "coords",
    to |-> IF nl THEN "absent" ELSE "coords", via |-> << >> ]

\* The handler is about to build journeyParams: the preferences of the
\* request, of the parsed intent and of the query text are any of Prefs.
ModeStart ==
  /\ body = ResolvedBody(prefs.path = "nl")
  /\ pc = "modes"
  /\ HandlerStart
  /\ Alone
  /\ HelperIdle
  /\ EnrichIdle
  /\ requestedModes = << >>
  /\ restrictToMentionedModes = FALSE
  /\ mode = << >>
  /\ resultJourneys = << >>
  /\ orderedJourneys = << >>
  /\ topJourneys = << >>
  /\ journeysWithDescriptions = << >>
  /\ joinPending = {}

ModeInit ==
  /\ prefs \in Prefs
  /\ ModeStart

\* natural-language path: requestedModes, restrictToMentionedModes, allowedModes
NLModeList ==
  /\ pc = "modes"
  /\ prefs.path = "nl"
  /\ LET p == [ prefs EXCEPT !.query = originalQuery(prefs.query, currentQuery) ]
     IN  /\ requestedModes' = RequestedModes(p)
         /\ restrictToMentionedModes' = RestrictToMentionedModes(p)
  /\ mode' = AllowedModes(restrictToMentionedModes', requestedModes')
  /\ pc' = "built"
  /\ UNCHANGED << prefs, resultJourneys, orderedJourneys, topJourneys,
                  journeysWithDescriptions, joinPending >>
  /\ UNCHANGED handlerVars
  /\ UNCHANGED auxVars

\* manual path: journeyParams.mode
ManualModeList ==
  /\ pc = "modes"
  /\ prefs.path = "manual"
  /\ mode' = ManualModes(prefs)
  /\ pc' = "built"
  /\ UNCHANGED << prefs, requestedModes, restrictToMentionedModes,
                  resultJourneys, orderedJourneys, topJourneys,
                  journeysWithDescriptions, joinPending >>
  /\ UNCHANGED handlerVars
  /\ UNCHANGED auxVars

ModeNext ==
  \/ NLModeList
  \/ ManualModeList

ModeSpec == ModeInit /\ [][ModeNext]_vars

\* ------------------------------------- the mode list across the attempts
\* the mode list of the first attempt of a natural-language request is about
\* to be built; the mode lists have an entry at most
RetryInit ==
  /\ prefs \in
       LET Short == { NoModes } \cup
                     { [ present |-> TRUE, list |-> l ] :
                         l \in SeqsUpTo(RawModes, 1) }
       IN  { [ path |-> "nl", bodyModes |-> b, nlModes |-> n, modePolicy |-> m,
               query |-> q ] :
               b \in Short, n \in Short, m \in { "absent", "only", "prefer" },
               q \in Queries }
  /\ ModeStart

\* the attempt fails behind the construction of the mode list; the catch
\* builds currentQuery and the extractor answers the next attempt with an
\* intent whose mode preferences may differ
ModeRetry ==
  /\ pc = "built"
  /\ prefs.path = "nl"
  /\ RetryAllowed(attempt)
  /\ attempt' = NextAttempt(attempt)
  /\ \E msg \in { Msg.NoJourneys, Msg.TflApiError } :
       currentQuery' = RetryQuery(currentQuery, msg, attempt)
  /\ \E n \in { NoModes } \cup { [ present |-> TRUE, list |-> l ] :
                                l \in SeqsUpTo(RawModes, 1) },
        policy \in { "absent", "only", "prefer" } :
       prefs' = [ prefs EXCEPT !.nlModes = n, !.modePolicy = policy ]
  /\ requestedModes' = << >>
  /\ restrictToMentionedModes' = FALSE
  /\ mode' = << >>
  /\ pc' = "modes"
  /\ UNCHANGED << body, lastError, thrown, allPrevNoJourneys, locationRequired,
                  extractorInput, intent, fromLocation, toLocation, viaLocation,
                  planRequest, planOutcome, journeyResult, response, responses,
                  calls, total, resolution >>
  /\ UNCHANGED << resultJourneys, orderedJourneys, topJourneys,
                  journeysWithDescriptions, joinPending >>
  /\ UNCHANGED auxVars

RetrySpec == RetryInit /\ [][NLModeList \/ ModeRetry]_vars

\* ------------------------------------------- re-ranking of planned journeys
\* Promise.all: the value of the i-th promise becomes the i-th element of the
\* array, whenever the promise completes.
SettleInCompletionOrder(results, i, value) ==
  LET k == CHOOSE k \in DOMAIN results :
             results[k].awaiting /\ \A j \in 1..(k - 1) : ~results[j].awaiting
  IN  [ results EXCEPT ![k] = value ]

Settle(results, i, value) == [ results EXCEPT ![i] = value ]

\* journeyResult.journeys of a planner answer that passed the empty check;
\* LegLists are the modes of the legs of a journey
PlannerAnswers ==
  LET LegLists ==
        { << "walking" >>, << "bus" >>, << "tube", "bus" >>,
          << "bus", "walking", "bus" >> }
  IN  UNION { { [ i \in 1..n |-> [ id |-> i, legs |-> f[i] ] ] :
                  f \in [ 1..n -> LegLists ] } : n \in 1..MaxJourneys }

\* The planner has answered in the natural-language path.
RankInit ==
  /\ requestedModes \in { << >>, << "bus" >>, << "tube", "bus" >>, DEFAULT_MODES }
  /\ restrictToMentionedModes \in BOOLEAN
  /\ resultJourneys \in PlannerAnswers
  /\ mode = AllowedModes(restrictToMentionedModes, requestedModes)
  /\ prefs = NoPrefs
  /\ body = ResolvedBody(TRUE)
  /\ pc = "planned"
  /\ HandlerStart
  /\ Alone
  /\ HelperIdle
  /\ EnrichIdle
  /\ orderedJourneys = << >>
  /\ topJourneys = << >>
  /\ journeysWithDescriptions = << >>
  /\ joinPending = {}

\* "Prefer mentioned modes if not restricted by only: reorder journeys"
Rerank ==
  /\ pc = "planned"
  /\ orderedJourneys' =
       OrderedJourneys(resultJourneys, restrictToMentionedModes, requestedModes)
  /\ pc' = "ordered"
  /\ UNCHANGED << prefs, requestedModes, restrictToMentionedModes, mode,
                  resultJourneys, topJourneys, journeysWithDescriptions,
                  joinPending >>
  /\ UNCHANGED handlerVars
  /\ UNCHANGED auxVars

\* orderedJourneys.slice(0, 3)
Slice ==
  /\ pc = "ordered"
  /\ topJourneys' = TopJourneys(orderedJourneys)
  /\ pc' = "sliced"
  /\ UNCHANGED << prefs, requestedModes, restrictToMentionedModes, mode,
                  resultJourneys, orderedJourneys, journeysWithDescriptions,
                  joinPending >>
  /\ UNCHANGED handlerVars
  /\ UNCHANGED auxVars

\* Promise.all(orderedJourneys.slice(0, 3).map(async (journey) => ...)): the
\* function of every journey is started, each with its two calls
JoinStart ==
  /\ pc = "sliced"
  /\ journeysWithDescriptions' =
       [ i \in DOMAIN topJourneys |->
           [ id |-> 0, legs |-> << >>, accessibleDescription |-> "",
             awaiting |-> TRUE ] ]
  /\ joinPending' = (DOMAIN topJourneys) \X { "description", "legs" }
  /\ pc' = "joining"
  /\ UNCHANGED << prefs, requestedModes, restrictToMentionedModes, mode,
                  resultJourneys, orderedJourneys, topJourneys >>
  /\ UNCHANGED handlerVars
  /\ UNCHANGED auxVars

\* One of the calls completes.  generateAccessibleDescription may reject, and
\* the rejection reaches the catch of the attempt, which awaits no other
\* call; the function of a journey
\* returns { ...journey, legs: enhancedLegs, accessibleDescription } when both
\* of its calls have completed.
JoinAnswer ==
  /\ pc = "joining"
  /\ \E p \in joinPending :
       \E rejected \in BOOLEAN :
         /\ rejected => p[2] = "description"
         /\ joinPending' = IF rejected THEN {} ELSE joinPending \ { p }
         /\ IF rejected
              THEN /\ pc' = "caught"
                   /\ UNCHANGED journeysWithDescriptions
              ELSE /\ journeysWithDescriptions' =
                        IF \E q \in joinPending' : q[1] = p[1]
                          THEN journeysWithDescriptions
                        ELSE Settle(journeysWithDescriptions, p[1],
                                    [ id |-> topJourneys[p[1]].id,
                                      legs |-> topJourneys[p[1]].legs,
                                      accessibleDescription |-> "described",
                                      awaiting |-> FALSE ])
                   /\ pc' = IF joinPending' = {} THEN "joined" ELSE "joining"
  /\ UNCHANGED << prefs, requestedModes, restrictToMentionedModes, mode,
                  resultJourneys, orderedJourneys, topJourneys >>
  /\ UNCHANGED handlerVars
  /\ UNCHANGED auxVars

RankNext ==
  \/ Rerank
  \/ Slice
  \/ JoinStart
  \/ JoinAnswer

RankSpec == RankInit /\ [][RankNext]_vars

\* ------------------------------------------------- parameters of the plan
\* normalizeAccessibilityOptions(opts), for an array.  An option is the
\* sequence of the pieces of its text, the blanks around it included; v is
\* String(raw || '').toLowerCase().trim() and v.includes(k) holds when k is
\* one of the pieces.
normalizeAccessibilityOptions(opts) ==
  LET lower(raw) == [ i \in DOMAIN raw |-> LowerWord(raw[i]) ]
      inner(t) == { i \in DOMAIN t : t[i] # " " }
      trim(t) ==
        IF inner(t) = {} THEN << >>
        ELSE SubSeq(t, CHOOSE i \in inner(t) : \A j \in inner(t) : i <= j,
                       CHOOSE i \in inner(t) : \A j \in inner(t) : i >= j)
      includes(v, k) == k \in Range(v)
      out(v) ==
        IF includes(v, "vehicle") THEN << "step-free-vehicle" >>
        ELSE IF includes(v, "platform") THEN << "step-free-platform" >>
        ELSE IF includes(v, "step-free") THEN << "step-free-vehicle" >>
        ELSE IF includes(v, "wheelchair") THEN << "step-free-vehicle" >>
        ELSE IF includes(v, "audio") THEN << "audio-announcements" >>
        ELSE IF includes(v, "visual") THEN << "visual-displays" >>
        ELSE << >>
      kept == SelectSeq([ i \in DOMAIN opts |-> trim(lower(opts[i])) ],
                        LAMBDA v : v # << >>)
  IN  Dedupe(Concat([ i \in DOMAIN kept |-> out(kept[i]) ]))

\* a mutation of accessibilityPreference: the platform is looked for first
accessibilityPreferencePlatformFirst(acc) ==
  IF "step-free-platform" \in Range(acc) THEN "StepFreeToPlatform"
  ELSE IF "step-free-vehicle" \in Range(acc) THEN "StepFreeToVehicle"
  ELSE "NoRequirements"

\* accessibilityPreference of journeyParams, on both paths
accessibilityPreference(acc) ==
  IF "step-free-vehicle" \in Range(acc) THEN "StepFreeToVehicle"
  ELSE IF "step-free-platform" \in Range(acc) THEN "StepFreeToPlatform"
  ELSE "NoRequirements"

\* String(n).padStart(2, '0'), digit by digit
padStart2(n) == IF n < 10 THEN << 0, n >> ELSE << n \div 10, n % 10 >>

\* formatTfLDate(d): `${yyyy}${mm}${dd}`; d.month is d.getMonth(), from 0
formatTfLDate(d) ==
  << d.year \div 1000, (d.year \div 100) % 10, (d.year \div 10) % 10, d.year % 10 >>
  \o padStart2(d.month + 1) \o padStart2(d.day)

\* formatTfLTime(d): `${hh}${min}`
formatTfLTime(d) == padStart2(d.hours) \o padStart2(d.minutes)

\* { ...base, ...obj }: the keys of obj replace those of base
Spread(base, obj) ==
  [ k \in DOMAIN base \cup DOMAIN obj |-> IF k \in DOMAIN obj THEN obj[k] ELSE base[k] ]

\* the date, time and timeIs of a parsed date
TimeKeys(d, timeIs) ==
  [ date |-> formatTfLDate(d), time |-> formatTfLTime(d), timeIs |-> timeIs ]

\* natural-language path: dateParam, timeParam and timeIsParam are set when
\* nlpTime.datetime is there and new Date(nlpTime.datetime) is a date
NLTimeParams(nlpTime) ==
  IF nlpTime.datetime.kind = "date"
    THEN TimeKeys(nlpTime.datetime,
                  IF nlpTime.type = "arrive" THEN "Arriving" ELSE "Departing")
    ELSE << >>

\* a mutation of ManualTimeParams: the departure time is spread last
ManualTimeParamsDepartureLast(departureTime, arrivalTime) ==
  Spread(IF arrivalTime.kind = "date" THEN TimeKeys(arrivalTime, "Arriving") ELSE << >>,
         IF departureTime.kind = "date"
           THEN TimeKeys(departureTime, "Departing") ELSE << >>)

\* manual path: the keys spread for body.departureTime, then those spread
\* for body.arrivalTime; parseClientTimeParam(value) is a date when value is
\* there and new Date(value) is a date
ManualTimeParams(departureTime, arrivalTime) ==
  Spread(IF departureTime.kind = "date"
           THEN TimeKeys(departureTime, "Departing") ELSE << >>,
         IF arrivalTime.kind = "date" THEN TimeKeys(arrivalTime, "Arriving") ELSE << >>)

\* ------------------------------------------- helper functions on their own
\* lists of raw mode strings: canonical, synonym, unknown, mixed case,
\* padded, empty
RawModeLists ==
  SeqsUpTo(RawModes \cup { "", "  ", " TUBE ", "Underground" }, MaxModes)

\* texts handed to hasOnlyConstraint: short texts over the words of its
\* patterns, and whole queries
Texts ==
  SeqsUpTo({ "only", "Just", "nothing", "but", "no", "other", "modes", "bus" },
           MaxWords)
  \cup Queries
  \cup { Query.TubeOnlyVictoria, Query.Exclusively, Query.NoTransport, Query.NoMode }

CodeLBG == << "L", "B", "G" >>

\* identifiers of stop points, character by character
Id ==
  [
    KingsCross |-> << "9", "1", "0", "G", "K", "G", "X" >>,
    Waterloo |-> << "9", "1", "0", "g", "w", "a", "t" >>,
    OxfordCircus |-> << "9", "4", "0", "G", "O", "X", "C" >>,
    StPancras |-> << "9", "1", "0", "G", "S", "T", "P" >>,
    BusStop |-> << "4", "9", "0", "B" >>,
    CharingCross |-> << "9", "1", "0", "G", "C", "H", "X" >>,
    Hub |-> << "H", "U", "B", "K", "G", "X" >>,
    Paddington |-> << "9", "1", "0", "G", "P", "A", "D" >>,
    Euston |-> << "9", "1", "0", "G", "E", "U", "S" >>
  ]

\* additionalProperties lists: a CrsCode key with a lower-case value, a crs
\* key behind another key, and three crs keys of which the first has no code
Props ==
  [
    Pad |->
      << [ key |-> << "C", "r", "s", "C", "o", "d", "e" >>, value |-> << "p", "a", "d" >> ] >>,
    Eus |->
      << [ key |-> << "Z", "o", "n", "e" >>, value |-> << "1" >> ],
      [ key |-> << "c", "r", "s" >>, value |-> << "E", "U", "S" >> ] >>,
    Vic |->
      << [ key |-> << "C", "R", "S" >>, value |-> << "n", "/", "a" >> ],
      [ key |-> << "c", "r", "s" >>, value |-> << "V", "I", "C" >> ],
      [ key |-> << "c", "r", "s" >>, value |-> << "E", "U", "S" >> ] >>
  ]

\* values of a StopPoint, and the absent stop point of
\* extractCrsFromStopPoint(undefined)
StopPoints ==
  { [ present |-> FALSE, icsCode |-> << >>, additionalProperties |-> << >>,
      naptanId |-> << >>, id |-> << >>, stationNaptan |-> << >> ] }
  \cup
  { [ present |-> TRUE, icsCode |-> c, additionalProperties |-> p,
      naptanId |-> n, id |-> i, stationNaptan |-> h ] :
      c \in { << >>, CodeLBG, << "l", "b", "g" >>, << "1", "0", "0", "0" >> },
      p \in { << >>, Props.Pad, Props.Eus, Props.Vic },
      n \in { << >>, Id.KingsCross, Id.Waterloo, Id.OxfordCircus },
      i \in { << >>, Id.StPancras, Id.BusStop },
      h \in { << >>, Id.CharingCross, Id.Hub } }

\* the accessibility and time preferences of a request and of its intent
\* (path "nl") or of a manual request: option lists, absent or an array of
\* canonical names, free texts, padded, empty and unknown options; dates
\* absent, unparseable or parsed (month as getMonth() gives it)
Preferences ==
  LET Options ==
        { << "step-free", "vehicle" >>, << "step-free", "platform" >>,
          << "wheelchair" >>, << "step-free" >>, << "step-free", "to", "platform" >>,
          << "audio", "announcements" >>, << "visual", "displays" >>,
          << " ", "Wheelchair", " " >>, << " " >>, << "lift" >> }
      Lists(n) ==
        { [ present |-> FALSE, list |-> << >> ] } \cup
        { [ present |-> TRUE, list |-> l ] : l \in SeqsUpTo(Options, n) }
      At(k, y, m, d, h, min) ==
        [ kind |-> k, year |-> y, month |-> m, day |-> d, hours |-> h, minutes |-> min ]
      Times ==
        { At("absent", 0, 0, 0, 0, 0), At("invalid", 0, 0, 0, 0, 0),
          At("date", 2026, 10, 5, 9, 5), At("date", 2027, 0, 31, 23, 59) }
      None == At("absent", 0, 0, 0, 0, 0)
  IN  { [ path |-> "nl", accessibility |-> b, nlAccessibility |-> n,
          nlpTime |-> [ datetime |-> t, type |-> ty ],
          departureTime |-> None, arrivalTime |-> None ] :
          b \in Lists(MaxOptions),
          n \in { [ present |-> FALSE, list |-> << >> ],
                  [ present |-> TRUE, list |-> << >> ],
                  [ present |-> TRUE, list |-> << << "wheelchair" >> >> ],
                  [ present |-> TRUE,
                    list |-> << << "step-free", "to", "platform" >> >> ] },
          t \in Times,
          ty \in { "absent", "depart", "arrive" } }
      \cup
      { [ path |-> "manual", accessibility |-> b, nlAccessibility |-> [ present |-> FALSE, list |-> << >> ],
          nlpTime |-> [ datetime |-> None, type |-> "absent" ],
          departureTime |-> dt, arrivalTime |-> at ] :
          b \in Lists(MaxOptions), dt \in Times, at \in Times }

\* A helper function of route.ts is about to be applied to an argument, or
\* journeyParams is about to be built from the preferences of a request.
HelperInit ==
  /\ \/ pc = "list" /\ arg \in RawModeLists
     \/ pc = "text" /\ arg \in Texts
     \/ pc = "stop" /\ arg \in StopPoints
     \/ pc = "prefs" /\ arg \in Preferences
  /\ result = << >>
  /\ body = ResolvedBody(FALSE)
  /\ HandlerStart
  /\ Alone
  /\ PlanIdle
  /\ EnrichIdle

\* normalizeTransportModes(arg)
Normalize ==
  /\ pc = "list"
  /\ result' = normalizeTransportModes(arg)
  /\ pc' = "normalized"
  /\ UNCHANGED arg
  /\ UNCHANGED << handlerVars, planVars, enrichVars, concVars >>

\* normalizeTransportModes applied to its own result
NormalizeAgain ==
  /\ pc = "normalized"
  /\ arg' = result
  /\ result' = normalizeTransportModes(result)
  /\ pc' = "renormalized"
  /\ UNCHANGED << handlerVars, planVars, enrichVars, concVars >>

\* hasOnlyConstraint(arg)
TestOnlyConstraint ==
  /\ pc = "text"
  /\ result' = hasOnlyConstraint(arg)
  /\ pc' = "tested"
  /\ UNCHANGED arg
  /\ UNCHANGED << handlerVars, planVars, enrichVars, concVars >>

\* extractCrsFromStopPoint(arg)
ExtractCrs ==
  /\ pc = "stop"
  /\ result' = extractCrsFromStopPoint(arg)
  /\ pc' = "extracted"
  /\ UNCHANGED arg
  /\ UNCHANGED << handlerVars, planVars, enrichVars, concVars >>

\* natural-language path: requestedAccessibility, the time preference of the
\* intent, and the keys of journeyParams they give
NLJourneyParams ==
  /\ pc = "prefs"
  /\ arg.path = "nl"
  /\ LET requestedAccessibility ==
           normalizeAccessibilityOptions(
             IF arg.accessibility.present THEN arg.accessibility.list
             ELSE IF arg.nlAccessibility.present THEN arg.nlAccessibility.list
             ELSE << >>)
     IN  result' =
           Spread([ accessibilityPreference |->
                      accessibilityPreference(requestedAccessibility) ],
                  NLTimeParams(arg.nlpTime))
  /\ pc' = "params"
  /\ UNCHANGED arg
  /\ UNCHANGED << handlerVars, planVars, enrichVars, concVars >>

\* manual path: the same keys of journeyParams
ManualJourneyParams ==
  /\ pc = "prefs"
  /\ arg.path = "manual"
  /\ LET acc ==
           normalizeAccessibilityOptions(
             IF arg.accessibility.present THEN arg.accessibility.list ELSE << >>)
     IN  result' =
           Spread([ accessibilityPreference |-> accessibilityPreference(acc) ],
                  ManualTimeParams(arg.departureTime, arg.arrivalTime))
  /\ pc' = "params"
  /\ UNCHANGED arg
  /\ UNCHANGED << handlerVars, planVars, enrichVars, concVars >>

HelperNext ==
  \/ Normalize
  \/ NormalizeAgain
  \/ TestOnlyConstraint
  \/ ExtractCrs
  \/ NLJourneyParams
  \/ ManualJourneyParams

HelperSpec == HelperInit /\ [][HelperNext]_vars

\* ------------------------------------------ enrichment of one itinerary
StopAt(naptan, parent) ==
  [ present |-> TRUE, icsCode |-> << >>, additionalProperties |-> << >>,
    naptanId |-> naptan, id |-> naptan, stationNaptan |-> parent ]

\* legs of an itinerary
Leg ==
  [
    \* a walk that starts at a rail station
    Walk |->
      [ mode |-> "walking", modeName |-> "walking", line |-> "",
      departurePoint |-> StopAt(Id.Paddington, << >>),
      arrivalPoint |-> StopAt(Id.OxfordCircus, Id.Hub) ],
    Tube |->
      [ mode |-> "tube", modeName |-> "tube", line |-> "Victoria",
      departurePoint |-> StopAt(Id.OxfordCircus, Id.Hub),
      arrivalPoint |-> StopAt(Id.BusStop, << >>) ],
    \* a bus leg without route options: its line is its mode
    Bus |->
      [ mode |-> "bus", modeName |-> "bus", line |-> "",
      departurePoint |-> StopAt(Id.BusStop, << >>),
      arrivalPoint |-> StopAt(Id.OxfordCircus, Id.Hub) ],
    RailKgx |->
      [ mode |-> "national-rail", modeName |-> "national-rail", line |-> "thameslink",
      departurePoint |-> StopAt(Id.KingsCross, << >>),
      arrivalPoint |-> StopAt(Id.BusStop, << >>) ],
    \* a rail leg whose code comes from its arrival point
    RailEus |->
      [ mode |-> "national-rail", modeName |-> "national-rail", line |-> "",
      departurePoint |-> StopAt(Id.OxfordCircus, << >>),
      arrivalPoint |-> StopAt(Id.Euston, << >>) ],
    \* a leg whose mode has neither id nor name
    Unknown |->
      [ mode |-> "", modeName |-> "", line |-> "",
      departurePoint |-> StopAt(Id.BusStop, << >>),
      arrivalPoint |-> StopAt(Id.OxfordCircus, Id.Hub) ]
  ]

LegKinds == { Leg.Walk, Leg.Tube, Leg.Bus, Leg.RailKgx, Leg.RailEus, Leg.Unknown }

Pred(i, stop, l, t, platform) ==
  [ id |-> i, naptanId |-> stop, lineId |-> l, timeToStation |-> t,
    platformName |-> platform ]

Failed == [ failed |-> TRUE, list |-> << >> ]

Answered(list) == [ failed |-> FALSE, list |-> list ]

\* arrivals at the tube stop and its parent station on two lines and at the
\* bus stop, in no particular order
ArrivalsAtStops ==
  << Pred(1, Id.OxfordCircus, "Victoria", 300, "4"),
     Pred(2, Id.OxfordCircus, "victoria", 60, "3"),
     Pred(3, Id.Hub, "victoria", 30, "5"),
     Pred(4, Id.OxfordCircus, "central", 10, "1"),
     Pred(5, Id.OxfordCircus, "victoria", 240, ""),
     Pred(6, Id.BusStop, "25", 400, "K") >>

\* what getMultipleArrivals may answer: a failure, the arrivals at the stops,
\* or arrivals at a stop no leg departs from
BatchedAnswers ==
  { Failed, Answered(ArrivalsAtStops),
    Answered(<< Pred(7, Id.Euston, "central", 50, "2") >>) }

\* a departure board in the order of the timetable: the first train is late
DepartureBoard ==
  LET Dep(i, t, platform) ==
        [ id |-> i, timeToStation |-> t, platformName |-> platform ]
  IN  << Dep(21, 900, "7"), Dep(22, 300, "2"), Dep(23, 600, ""), Dep(24, 1200, "1") >>

\* what getNextDeparturesByCRS may answer for a rail code
DepartureAnswers(crs) == { Failed, Answered(<< >>), Answered(DepartureBoard) }

\* what getLineArrivals may answer for a leg: arrivals of the line at the
\* leg's stop among arrivals at other stops, or at other stops only
LineAnswers(leg) ==
  { Failed,
    Answered(<< Pred(31, StopPointId(leg), LineId(leg), 500, "9"),
                Pred(32, Id.Euston, LineId(leg), 5, "8"),
                Pred(33, StopPointId(leg), LineId(leg), 100, ""),
                Pred(34, StopPointId(leg), LineId(leg), 700, "9"),
                Pred(35, StopPointId(leg), LineId(leg), 200, "6") >>),
    Answered(<< Pred(32, Id.Euston, LineId(leg), 5, "8") >>) }

\* baseEnhancements of a leg whose function has not run
NotEnhanced(leg) ==
  [ leg |-> leg, keys |-> {}, nextArrivals |-> << >>, platformName |-> "",
    awaiting |-> FALSE ]

\* enhanceLegsWithArrivals(journey) is called.
EnrichInit ==
  /\ journey \in SeqsUpTo(LegKinds, MaxLegs)
  /\ nrEnabled \in BOOLEAN
  /\ pc = "enhance"
  /\ requests = NoRequests
  /\ answers = NoAnswers
  /\ arrivals = << >>
  /\ nrByCrs = << >>
  /\ nrPending = {}
  /\ linePending = {}
  /\ enhanced = [ i \in DOMAIN journey |-> NotEnhanced(journey[i]) ]
  /\ body = ResolvedBody(FALSE)
  /\ HandlerStart
  /\ Alone
  /\ PlanIdle
  /\ HelperIdle

\* The leg descriptors are built and, if there is a stop to ask for, the
\* batched arrivals request is issued.
EnhanceStart ==
  /\ pc = "enhance"
  /\ LET ids == StopPointIds(journey)
     IN  /\ requests' = [ requests EXCEPT !.batched =
                            IF ids # << >> THEN << ids >> ELSE << >> ]
         /\ pc' = IF ids # << >> THEN "arrivals" ELSE "fanout"
  /\ UNCHANGED << journey, nrEnabled, answers, arrivals, nrByCrs, nrPending,
                  linePending, enhanced >>
  /\ UNCHANGED << handlerVars, planVars, helperVars, concVars >>

\* getMultipleArrivals answers, inside its try block
ArrivalsAnswer ==
  /\ pc = "arrivals"
  /\ \E ans \in BatchedAnswers :
       /\ answers' = [ answers EXCEPT !.batched = << ans >> ]
       /\ arrivals' = Caught(ans).list
       /\ pc' = IF Caught(ans).rejected THEN "rejected" ELSE "fanout"
  /\ UNCHANGED << journey, nrEnabled, requests, nrByCrs, nrPending,
                  linePending, enhanced >>
  /\ UNCHANGED << handlerVars, planVars, helperVars, concVars >>

\* "Pre-fetch NR departures if enabled": one getNextDeparturesByCRS call per
\* entry of Array.from(nrCrsSet), all issued before the first is awaited
FetchDepartures ==
  /\ pc = "fanout"
  /\ LET codes == NrCrsSet(journey)
     IN  IF nrEnabled /\ codes # << >>
           THEN /\ requests' = [ requests EXCEPT !.nr = codes ]
                /\ nrPending' = Range(codes)
                /\ pc' = "departures"
           ELSE /\ UNCHANGED << requests, nrPending >>
                /\ pc' = "legs"
  /\ UNCHANGED << journey, nrEnabled, answers, arrivals, nrByCrs,
                  linePending, enhanced >>
  /\ UNCHANGED << handlerVars, planVars, helperVars, concVars >>

\* One of the pending departures requests completes, in any order; the join
\* resolves when the last has completed.
DepartureAnswer ==
  /\ pc = "departures"
  /\ \E crs \in nrPending :
       \E ans \in DepartureAnswers(crs) :
         /\ answers' = [ answers EXCEPT !.nr = (crs :> ans) @@ @ ]
         /\ nrByCrs' = IF ans.failed THEN nrByCrs
                       ELSE (crs :> Caught(ans).list) @@ nrByCrs
         /\ nrPending' = nrPending \ { crs }
         /\ pc' = IF Caught(ans).rejected THEN "rejected"
                  ELSE IF nrPending' = {} THEN "legs"
                  ELSE "departures"
  /\ UNCHANGED << journey, nrEnabled, requests, arrivals, linePending, enhanced >>
  /\ UNCHANGED << handlerVars, planVars, helperVars, concVars >>

\* Promise.all(journey.legs.map(async (leg) => ...)): the function of every
\* leg runs to its end or to its getLineArrivals call
SelectLegs ==
  /\ pc = "legs"
  /\ LET sortedArrivals == SortByTime(arrivals)
         e == [ i \in DOMAIN journey |->
                  EnhanceLeg(journey[i], sortedArrivals, nrByCrs, nrEnabled) ]
         waits(i) == e[i].awaiting
         asked == SelectSeq(Indices(journey), waits)
     IN  /\ enhanced' = e
         /\ linePending' = Range(asked)
         /\ requests' =
              [ requests EXCEPT !.line =
                  [ k \in DOMAIN asked |->
                      [ leg |-> asked[k], lineId |-> LineId(journey[asked[k]]),
                        stopPointId |-> StopPointId(journey[asked[k]]) ] ] ]
         /\ pc' = IF asked = << >> THEN "returned" ELSE "lines"
  /\ UNCHANGED << journey, nrEnabled, answers, arrivals, nrByCrs, nrPending >>
  /\ UNCHANGED << handlerVars, planVars, helperVars, concVars >>

\* getLineArrivals answers for one of the waiting legs; the function returns
\* when the last leg has its enhancements.
LineAnswer ==
  /\ pc = "lines"
  /\ \E i \in linePending :
       \E ans \in LineAnswers(journey[i]) :
         /\ answers' = [ answers EXCEPT !.line = (i :> ans) @@ @ ]
         /\ enhanced' =
              Settle(enhanced, i,
                     AfterLineArrivals(enhanced[i], Caught(ans).list))
         /\ linePending' = linePending \ { i }
         /\ pc' = IF Caught(ans).rejected THEN "rejected"
                  ELSE IF linePending' = {} THEN "returned"
                  ELSE "lines"
  /\ UNCHANGED << journey, nrEnabled, requests, arrivals, nrByCrs, nrPending >>
  /\ UNCHANGED << handlerVars, planVars, helperVars, concVars >>

EnrichNext ==
  \/ EnhanceStart
  \/ ArrivalsAnswer
  \/ FetchDepartures
  \/ DepartureAnswer
  \/ SelectLegs
  \/ LineAnswer

EnrichSpec == EnrichInit /\ [][EnrichNext]_vars

\* the two fan-ins of a request: the legs of an itinerary and the journeys of
\* the response
FanInSpec == (RankInit \/ EnrichInit) /\ [][RankNext \/ EnrichNext]_vars


\* ------------------------------------------------------------ properties
IsNL == body.nlq

NoResolutionCalls ==
  calls.search = 0 /\ calls.geocode = 0 /\ calls.plan = 0 /\ calls.enrich = 0

\* C1: every natural-language request ends with exactly one response, after
\* at most 5 calls of the intent extractor and at most 5 calls of the journey
\* planner, whatever the collaborators answer.
C1_TerminatesWithinFiveAttempts ==
  /\ [](IsNL => /\ total.parse <= 5
                /\ total.plan <= 5
                /\ responses <= 1
                /\ (pc = "done" <=> responses = 1))
  /\ [][pc = "done" => UNCHANGED vars]_vars
  /\ <>[](IsNL => pc = "done" /\ responses = 1 /\ response.status # "none")

\* five attempts, each of which reached the planner, then the response
C1_Witness ==
  IsNL /\ pc = "done" /\ responses = 1 /\ total.parse = 5 /\ total.plan = 5

\* C2: in the natural-language path, once the planner has yielded at least
\* one journey in attempt k, all earlier attempts having failed with "No
\* journeys found", the request ends with a success response carrying the
\* journeys of attempt k.
C2_PlannerSuccessGivesSuccess ==
  [][ (IsNL /\ pc = "enrich" /\ allPrevNoJourneys)
        => /\ pc' = "done"
           /\ response'.status = "success"
           /\ Len(response'.data.journeys) = Len(TopJourneys(journeyResult))
           /\ \A i \in 1..Len(response'.data.journeys) :
                /\ response'.data.journeys[i].at = attempt
                /\ response'.data.journeys[i].id = journeyResult[i].id ]_vars

\* C3: when the fifth attempt of a natural-language request fails too, the
\* response is an error whose text is the message of the error thrown in the
\* fifth attempt, and it carries no journeys; a success response carries the
\* complete list of the top journeys, each with its enhanced legs.
C3_LastErrorSurfacedNoPartialResult ==
  /\ (IsNL /\ pc = "done" /\ thrown.at = 4)
       => /\ response.status = "error"
          /\ response.error = thrown.msg
          /\ "journeys" \notin DOMAIN response.data
  /\ response.status = "success"
       => /\ "journeys" \in DOMAIN response.data
          /\ Len(response.data.journeys) = Min(Len(journeyResult), 3)
          /\ \A i \in 1..Len(response.data.journeys) :
               /\ response.data.journeys[i].id = journeyResult[i].id
               /\ response.data.journeys[i].legs = "enhanced"
               /\ response.data.journeys[i].description = "text"

\* the fifth attempt failed with another error than the first
C3_Witness ==
  /\ IsNL /\ pc = "done" /\ thrown.at = 4
  /\ thrown.msg = Msg.NoJourneys
  /\ locationRequired

\* a success response with three journeys out of four planned
C3_WitnessSuccess ==
  /\ IsNL /\ response.status = "success"
  /\ Len(journeyResult) = 4 /\ Len(response.data.journeys) = 3

\* C4: the first intent-extractor call gets the original query unchanged; the
\* call of attempt k+1 gets the original query followed by a feedback suffix
\* {lastError, guidance, allowedModes, defaultModes}, lastError being the
\* message of the error of attempt k, allowedModes the 11 modes and
\* defaultModes the 6 default modes.
C4_FeedbackSuffix ==
  extractorInput.at >= 0 =>
    /\ extractorInput.query.original = body.original
    /\ extractorInput.at = 0 => extractorInput.query.feedback = << >>
    /\ extractorInput.at >= 1 =>
         /\ Len(extractorInput.query.feedback) >= 1
         /\ LET fb == extractorInput.query.feedback[Len(extractorInput.query.feedback)]
            IN  /\ DOMAIN fb = { "lastError", "guidance", "allowedModes", "defaultModes" }
                /\ thrown.at = extractorInput.at - 1 => fb.lastError = thrown.msg
                /\ Len(fb.allowedModes) = 11
                /\ { fb.allowedModes[i] : i \in 1..11 } =
                     { "tube", "bus", "dlr", "overground", "tram", "river-bus",
                       "cable-car", "coach", "cycle", "walking", "national-rail" }
                /\ fb.defaultModes =
                     << "tube", "bus", "dlr", "overground", "walking", "national-rail" >>

\* the extractor is called in a retry that follows a planner failure
C4_Witness ==
  /\ pc = "parse" /\ extractorInput.at = 3
  /\ thrown = [ msg |-> Msg.NoJourneys, at |-> 2 ]
  /\ extractorInput.query.feedback[1].lastError = Msg.NoJourneys

\* C5 as stated: at attempt k >= 2 the text handed to the extractor contains
\* the failure information of every earlier attempt.
C5_FeedbackAccumulates ==
  extractorInput.at >= 1 =>
    \A j \in 0..(extractorInput.at - 1) :
      \E i \in 1..Len(extractorInput.query.reports) :
        extractorInput.query.reports[i] = j

\* C5 amended: at attempt k >= 2 the text handed to the extractor is the
\* original query followed by exactly one feedback suffix, which reports the
\* failure of attempt k-1 only.
C5_FeedbackOfPreviousAttemptOnly ==
  extractorInput.at >= 1 =>
    /\ extractorInput.query.original = body.original
    /\ Len(extractorInput.query.feedback) = 1
    /\ extractorInput.query.reports = << extractorInput.at - 1 >>

\* the third attempt's call, after two failures with different errors
C5_Witness ==
  /\ pc = "parse" /\ extractorInput.at = 2
  /\ thrown.at = 1
  /\ locationRequired /\ thrown.msg # Msg.LocationRequired

\* C6: in every attempt, an intent parsed with confidence below 0.3 ends the
\* request at once with the "could not understand" error: no station search,
\* geocoding, planner or arrivals call follows the parse, and no other
\* attempt.
C6_LowConfidenceAborts ==
  /\ [](IsNL /\ intent.type # "none" /\ intent.confidence < 30
          => /\ pc = "done"
             /\ response = ErrorResponse(Msg.LowConfidence, 400)
             /\ NoResolutionCalls
             /\ calls.clarify = 0 /\ calls.enhance = 0 /\ calls.describe = 0
             /\ extractorInput.at = attempt
             /\ total.parse = attempt + 1)
  /\ [][pc = "done" => UNCHANGED vars]_vars

\* a retry's parse comes back with confidence 0.29
C6_Witness ==
  /\ IsNL /\ pc = "done" /\ attempt = 2
  /\ intent.type = "journey_planning" /\ intent.confidence = 29

\* C7: an intent that passes the confidence and kind gates and lists
\* ambiguities makes the request end with the error response whose data is
\* exactly {ambiguities, suggestions}.
C7_AmbiguityResponse ==
  [][ (IsNL /\ pc = "clarify")
        => /\ pc' = "done"
           /\ response'.status = "error"
           /\ DOMAIN response'.data = { "ambiguities", "suggestions" }
           /\ response'.data.ambiguities = intent.ambiguities ]_vars

\* C8: a manual request never calls the intent extractor, the clarification
\* or the name expansion, calls the planner at most once, and ends with an
\* error response, without another planner call, when that call fails.
C8_ManualNoRetry ==
  ~IsNL =>
    /\ total.parse = 0 /\ calls.parse = 0
    /\ calls.clarify = 0 /\ calls.enhance = 0
    /\ total.plan <= 1 /\ calls.plan <= 1
    /\ attempt = 0
    /\ planOutcome \in { "throw", "missing" }
         => /\ pc = "done"
            /\ response.status = "error"
            /\ "journeys" \notin DOMAIN response.data

\* the planner call of a manual request has thrown
C8_Witness ==
  ~IsNL /\ planOutcome = "throw" /\ total.plan = 1 /\ pc = "done"

\* C9: a manual request with a destination and no origin is answered with
\* error location_required before any station search, geocoding or planner
\* call.
C9_ManualLocationRequired ==
  (~IsNL /\ body.to # "absent" /\ body.from = "absent") =>
    /\ pc \in { "mfrom", "done" }
    /\ NoResolutionCalls
    /\ pc = "done" => /\ response.status = "error"
                      /\ response.error = "location_required"

\* the request {to: "Westminster"} has been answered
C9_Witness ==
  /\ ~IsNL /\ body.to = "name" /\ body.from = "absent" /\ pc = "done"
  /\ response.error = "location_required"

\* C10: a natural-language request in which a parsed intent asked for the
\* current location while the body has no `from` is answered with error
\* location_required, whatever the extractor returns afterwards.
C10_LocationRequiredSurfaces ==
  (IsNL /\ locationRequired /\ pc = "done") =>
    /\ response.status = "error"
    /\ response.error = "location_required"

\* the canonical modes a raw mode list names
NamedModes(list) ==
  { IF m = "Cycle " THEN "cycle" ELSE IF m = "underground" THEN "tube" ELSE m :
      m \in Range(list) \ { "hovercraft" } }

NoDuplicates(seq) == \A i, j \in DOMAIN seq : seq[i] = seq[j] => i = j

\* the queries that contain an exclusivity marker
MarkedQueries ==
  { Query.TubeOnly, Query.NothingBut, Query.Strictly, Query.NoOtherModes }

\* C11: in the natural-language path the mode list sent to the planner is the
\* normalized requested modes when the query has an exclusivity marker or the
\* intent's modePolicy is only, and the union of the default modes and the
\* requested modes otherwise; {only, [tube]} gives [tube] and {prefer, [bus]}
\* gives the default modes plus bus.
C11_MergePolicy ==
  (pc = "built" /\ prefs.path = "nl") =>
    /\ Range(requestedModes) \subseteq Range(ALLOWED_MODES)
    /\ NoDuplicates(requestedModes)
    /\ (~prefs.bodyModes.present /\ prefs.nlModes.present)
         => Range(requestedModes) = NamedModes(prefs.nlModes.list)
    /\ (prefs.query \in MarkedQueries \/ prefs.modePolicy = "only")
         => mode = requestedModes
    /\ ~(prefs.query \in MarkedQueries \/ prefs.modePolicy = "only")
         => /\ Range(mode) = Range(DEFAULT_MODES) \cup Range(requestedModes)
            /\ NoDuplicates(mode)
    /\ ( /\ ~prefs.bodyModes.present
         /\ prefs.nlModes = [ present |-> TRUE, list |-> << "tube" >> ]
         /\ prefs.modePolicy = "only" )
         => mode = << "tube" >>
    /\ ( /\ ~prefs.bodyModes.present
         /\ prefs.nlModes = [ present |-> TRUE, list |-> << "bus" >> ]
         /\ prefs.modePolicy = "prefer"
         /\ prefs.query = Query.PreferBus )
         => Range(mode) = Range(DEFAULT_MODES) \cup { "bus" }

\* policy prefer with a mode outside the default set: the list is merged
C11_Witness ==
  /\ pc = "built" /\ prefs.path = "nl"
  /\ ~prefs.bodyModes.present
  /\ prefs.nlModes.list = << "Cycle " >>
  /\ prefs.modePolicy = "prefer" /\ prefs.query = Query.PreferBus
  /\ Len(mode) = 7 /\ "cycle" \in Range(mode)

\* policy only with the mode list [tube]
C11_WitnessOnly ==
  /\ pc = "built" /\ prefs.path = "nl"
  /\ prefs.nlModes.list = << "tube" >> /\ prefs.modePolicy = "only"
  /\ prefs.query = Query.Plain
  /\ mode = << "tube" >>

\* C12: when neither the request body nor the intent names a mode (list
\* absent or empty) and the query text mentions none, the mode list sent to
\* the planner is the default mode set, on both paths and whatever the
\* exclusivity flag.
C12_DefaultModesWithoutPreference ==
  ( /\ pc = "built"
    /\ ~prefs.bodyModes.present \/ prefs.bodyModes.list = << >>
    /\ ~prefs.nlModes.present \/ prefs.nlModes.list = << >>
    /\ prefs.path = "nl" => prefs.query \in { Query.Plain, Query.Strictly } )
    => mode = << "tube", "bus", "dlr", "overground", "walking", "national-rail" >>

\* C13: for the query "Tube only from Canary Wharf to Oxford Circus" sent
\* without body preferences, whatever mode list and policy the intent
\* carries, the mode list sent to the planner names no mode other than tube.
C13_TubeOnlyQueryPlansTubeOnly ==
  ( /\ pc = "built" /\ prefs.path = "nl"
    /\ prefs.query = Query.TubeOnly
    /\ ~prefs.bodyModes.present )
    => Range(mode) \subseteq { "tube" }

\* C14: on both paths a planner answer with no journeys (empty or missing
\* list) ends in the error "No journeys found", a success response never
\* carries an empty journeys list, and a planner call that throws ends in an
\* error response.
C14_EmptyPlanIsNoJourneysFound ==
  /\ response.status = "success"
       => /\ planOutcome = "ok"
          /\ Len(response.data.journeys) >= 1
  /\ (pc = "done" /\ planOutcome \in { "empty", "missing" })
       => /\ response.status = "error"
          /\ response.error = "No journeys found"
  /\ (pc = "done" /\ planOutcome = "throw") => response.status = "error"

\* number of legs of j whose mode is a requested mode
PreferredLegs(j) ==
  Cardinality({ k \in DOMAIN j.legs : j.legs[k] \in Range(requestedModes) })

\* a comes before b: higher score, or the same score and earlier in the
\* planner's order
RanksBefore(a, b) ==
  \/ 2 * PreferredLegs(a) > 2 * PreferredLegs(b)
  \/ 2 * PreferredLegs(a) = 2 * PreferredLegs(b) /\ a.id < b.id

FirstThree(js) == SubSeq(js, 1, Min(Len(js), 3))

\* C15 as stated: the journeys returned are the planner's first three; when
\* the modes are preferred (not exclusive) they are ordered by descending
\* score, equal scores in the planner's order; when the modes are exclusive
\* they are in the planner's order.
C15_TopThreeThenRanked ==
  pc = "sliced" =>
    /\ Len(topJourneys) = Len(FirstThree(resultJourneys))
    /\ Range(topJourneys) = Range(FirstThree(resultJourneys))
    /\ ~restrictToMentionedModes
         => \A i, j \in DOMAIN topJourneys :
              i < j => RanksBefore(topJourneys[i], topJourneys[j])
    /\ restrictToMentionedModes => topJourneys = FirstThree(resultJourneys)

\* C15 amended: when the modes are preferred (not exclusive) all the
\* planner's journeys are ordered by descending score, equal scores in the
\* planner's order, and the first three of that order are returned; when the
\* modes are exclusive the planner's first three are returned in its order.
C15_RankedThenTopThree ==
  pc = "sliced" =>
    /\ Len(topJourneys) = Min(Len(resultJourneys), 3)
    /\ Range(topJourneys) \subseteq Range(resultJourneys)
    /\ ~restrictToMentionedModes
         => /\ \A i, j \in DOMAIN topJourneys :
                 i < j => RanksBefore(topJourneys[i], topJourneys[j])
            /\ \A t \in Range(topJourneys) :
                 \A r \in Range(resultJourneys) \ Range(topJourneys) :
                   RanksBefore(t, r)
    /\ restrictToMentionedModes => topJourneys = FirstThree(resultJourneys)

\* the planner's fourth journey has the highest score and is returned first
C15_Witness ==
  /\ pc = "sliced" /\ ~restrictToMentionedModes
  /\ requestedModes = << "bus" >>
  /\ Len(resultJourneys) = 4
  /\ topJourneys[1].id = 4 /\ topJourneys[2].id = 1

\* C16: a success response carries at most 3 journeys on either path, and
\* descriptions and enriched legs are requested for at most 3 journeys of a
\* planner answer.
C16_AtMostThreeJourneys ==
  /\ response.status = "success" => Len(response.data.journeys) <= 3
  /\ calls.describe <= 3
  /\ calls.enrich <= 3
  /\ calls.plan <= 1

\* a manual request whose planner answer has four journeys
C16_Witness ==
  /\ ~IsNL /\ response.status = "success"
  /\ Len(journeyResult) = 4 /\ Len(response.data.journeys) = 3
  /\ calls.describe = 3 /\ calls.enrich = 3

\* C17: in the natural-language path, for a place name `from` or `to` whose
\* station search throws or returns nothing while the geocoder has a result,
\* the endpoint resolves to the geocoder's result; a not-found error is
\* raised only when the station search and the geocoder both found nothing.
C17_FailedSearchFallsThrough ==
  /\ ( /\ IsNL /\ resolution.endpoint \in { "from", "to" }
       /\ resolution.expand = "ok"
       /\ resolution.search \in { "throw", "empty" }
       /\ resolution.geocode = "found" )
       => /\ resolution.loc = "geo"
          /\ resolution.err = ""
  /\ ( /\ IsNL
       /\ resolution.err \in { "Could not find location", "Could not find destination" } )
       => /\ resolution.search # "found"
          /\ resolution.geocode = "empty"

\* C18: for `from`, `to` and `via` on both paths, a place name for which the
\* station search returns no match and the geocoder has a result resolves to
\* the geocoder's result.
C18_GeocoderFallbackEverywhere ==
  ( /\ resolution.endpoint \in { "from", "to", "via" }
    /\ resolution.expand # "throw"
    /\ resolution.search = "empty"
    /\ resolution.geocode = "found" )
    => /\ resolution.loc = "geo"
       /\ resolution.err = ""

\* C19: when the name expansion of an endpoint fails, the endpoint is still
\* resolved from the station search and the geocoder, and the attempt does
\* not fail with the expansion's error.
C19_ExpansionBestEffort ==
  resolution.expand = "throw" =>
    /\ resolution.err # Msg.AiError
    /\ thrown # [ msg |-> Msg.AiError, at |-> attempt - 1 ]
    /\ resolution.search = "found" => resolution.loc = "stop"
    /\ (resolution.search = "empty" /\ resolution.geocode = "found")
         => resolution.loc = "geo"

\* the via list read by the current path
ViaList == IF IsNL THEN intent.via ELSE body.via

\* C20: whatever the length of the via list, the via step looks at its first
\* entry only: it issues at most one station search and one geocoding call,
\* none when the first entry is blank or a coordinate pair, and the plan
\* request carries at most one via point, which comes from the first entry.
C20_OnlyFirstViaResolved ==
  /\ [](planRequest.via \in { "null", "stop", "geo", "coords" })
  /\ [][ (pc = "via" \/ pc = "mvia") =>
          /\ calls'.search <= calls.search + 1
          /\ calls'.geocode <= calls.geocode + 1
          /\ calls'.enhance <= calls.enhance + 1
          /\ (Len(ViaList) = 0 \/ ViaList[1] = "blank")
               => /\ viaLocation' = viaLocation
                  /\ calls' = calls
                  /\ resolution'.endpoint = "none"
          /\ (Len(ViaList) > 0 /\ ViaList[1] = "coords")
               => /\ viaLocation' = "coords"
                  /\ calls' = calls
          /\ (Len(ViaList) > 0 /\ ViaList[1] = "name" /\ pc' \in { "plan", "mplan" })
               => /\ calls'.search = calls.search + 1
                  /\ viaLocation' \in { viaLocation, resolution'.loc }
                  /\ resolution'.loc # "null" => viaLocation' = resolution'.loc ]_vars

\* a via list of two entries whose first is blank: nothing is resolved
C20_Witness ==
  /\ IsNL /\ Len(intent.via) = 2 /\ intent.via[1] = "blank"
  /\ intent.via[2] = "name"
  /\ pc = "done" /\ response.status = "success"
  /\ planRequest.via = "null" /\ calls.search = 2

\* a manual via list of two entries: the first is resolved, the second is not
C20_WitnessManual ==
  /\ ~IsNL /\ Len(body.via) = 2 /\ body.via[1] = "name"
  /\ body.from = "coords" /\ body.to = "coords"
  /\ pc = "done" /\ response.status = "success"
  /\ planRequest.via = "geo" /\ calls.search = 1 /\ calls.geocode = 1

\* C21: the planner is called only from the planning step, with both
\* endpoints resolved and with the endpoints and the via the handler holds;
\* the planning step is entered only from the via step of the same attempt;
\* and an attempt whose origin or destination is unresolved has not called
\* the planner.
C21_PlannerAfterResolution ==
  [][ /\ (total'.plan # total.plan \/ planRequest' # planRequest) =>
           \/ /\ (pc = "plan" \/ pc = "mplan")
              /\ fromLocation # "null"
              /\ toLocation # "null"
              /\ (planRequest' # NoRequest =>
                    planRequest' = [ from |-> fromLocation, to |-> toLocation,
                                     via |-> viaLocation ])
           \/ /\ planRequest' = NoRequest
              /\ total'.plan = total.plan
      /\ (pc' = "plan" /\ pc # "plan") => (pc = "via" /\ attempt' = attempt)
      /\ (pc' = "mplan" /\ pc # "mplan") => pc = "mvia"
      /\ (fromLocation' = "null" \/ toLocation' = "null") => calls'.plan = 0
    ]_vars

\* the planner has been called in a retry of a natural-language request,
\* with a via resolved in that attempt
C21_Witness ==
  /\ IsNL
  /\ pc = "enrich"
  /\ attempt > 0
  /\ calls.plan = 1
  /\ calls.search >= 3
  /\ planRequest.from # "null"
  /\ planRequest.to # "null"
  /\ planRequest.via # "null"

\* an attempt has ended on an unresolved origin without a planner call
C21_WitnessUnresolved ==
  /\ thrown.msg = Msg.BothRequired
  /\ pc = "done"
  /\ total.plan = 0

\* the code each source of a stop point yields, read off the stop points of
\* StopPoints: (a) the explicit code, (b) the keyed property, (c) the stop
\* identifier, (d) the parent-station identifier
ExplicitCode(sp) == IF sp.icsCode = CodeLBG THEN CodeLBG ELSE << >>

KeyedCode(sp) ==
  CASE sp.additionalProperties = Props.Pad -> << "P", "A", "D" >>
    [] sp.additionalProperties = Props.Eus -> << "E", "U", "S" >>
    [] sp.additionalProperties = Props.Vic -> << "V", "I", "C" >>
    [] OTHER -> << >>

IdentifierCode(sp) ==
  CASE sp.naptanId = Id.KingsCross -> << "K", "G", "X" >>
    [] sp.naptanId = Id.Waterloo -> << "W", "A", "T" >>
    [] sp.naptanId = << >> /\ sp.id = Id.StPancras -> << "S", "T", "P" >>
    [] OTHER -> << >>

ParentCode(sp) ==
  IF sp.stationNaptan = Id.CharingCross THEN << "C", "H", "X" >> ELSE << >>

\* C28: the rail code of a stop is the first that exists of (a) its explicit
\* code of three uppercase letters, (b) its property keyed crs or crscode,
\* (c) the three letters behind 910G in its identifier, (d) the same in its
\* parent station's identifier; 910GKGX gives KGX; a stop with no such
\* property and no 910G identifier gives no code, and nothing is raised.
C28_RailCodePrecedence ==
  pc = "extracted" =>
    /\ arg.present =>
         result =
           IF ExplicitCode(arg) # << >> THEN ExplicitCode(arg)
           ELSE IF KeyedCode(arg) # << >> THEN KeyedCode(arg)
           ELSE IF IdentifierCode(arg) # << >> THEN IdentifierCode(arg)
           ELSE ParentCode(arg)
    /\ ~arg.present => result = NoCode
    /\ ( /\ arg.naptanId = Id.KingsCross
         /\ arg.icsCode = << >>
         /\ arg.additionalProperties = << >> ) => result = << "K", "G", "X" >>
    /\ ( /\ arg.icsCode # CodeLBG
         /\ arg.additionalProperties = << >>
         /\ arg.naptanId \in { << >>, Id.OxfordCircus }
         /\ arg.id \in { << >>, Id.BusStop }
         /\ arg.stationNaptan \in { << >>, Id.Hub } ) => result = NoCode

\* the identifier 910GKGX has given KGX although the parent station has a code
C28_Witness ==
  /\ pc = "extracted"
  /\ arg.naptanId = Id.KingsCross
  /\ arg.icsCode = << >>
  /\ arg.additionalProperties = << >>
  /\ arg.stationNaptan = Id.CharingCross
  /\ result = << "K", "G", "X" >>

\* a stop without a rail-code property and without a 910G identifier
C28_WitnessNoCode ==
  /\ pc = "extracted"
  /\ arg.present
  /\ arg.naptanId = Id.OxfordCircus
  /\ arg.stationNaptan = Id.Hub
  /\ result = NoCode

\* the canonical mode a raw mode string stands for, "" for none
CanonicalMode(m) ==
  CASE m \in { "tube", " TUBE ", "underground", "Underground" } -> "tube"
    [] m = "bus" -> "bus"
    [] m = "Cycle " -> "cycle"
    [] OTHER -> ""

CanonicalModes ==
  { "tube", "bus", "dlr", "overground", "tram", "river-bus", "cable-car",
    "coach", "cycle", "walking", "national-rail" }

\* C29: normalizing a raw mode list gives a list without duplicates whose
\* members are canonical modes, namely the canonical modes of the raw
\* entries that have one (unknown and empty entries are dropped), and
\* normalizing the result again gives the same list.
C29_NormalizeIdempotent ==
  /\ pc = "normalized" =>
       /\ NoDuplicates(result)
       /\ Range(result) \subseteq CanonicalModes
       /\ Range(result) = { CanonicalMode(arg[i]) : i \in DOMAIN arg } \ { "" }
  /\ pc = "renormalized" =>
       /\ result = arg
       /\ NoDuplicates(result)
       /\ Range(result) \subseteq CanonicalModes

\* a list of two modes has been normalized twice
C29_Witness ==
  /\ pc = "renormalized"
  /\ result = << "cycle", "tube" >>
  /\ arg = result

\* a synonym, its padded upper-case canonical form and an unknown token
C29_WitnessDropped ==
  /\ pc = "normalized"
  /\ Len(arg) = MaxModes
  /\ arg[1] = "Underground"
  /\ arg[2] \in { " TUBE ", "hovercraft", "" }
  /\ result = << "tube" >>

IsMarkerWord(w) == w \in { "only", "just", "Just", "strictly", "exclusively" }

IsNegatedNoun(w) == w \in { "mode", "modes", "transport" }

\* the text has an exclusivity marker: a marker word, "nothing but", or
\* "no" before an optional "other" and one of mode, modes, transport
HasMarker(text) ==
  \/ \E i \in DOMAIN text : IsMarkerWord(text[i])
  \/ \E i \in DOMAIN text :
       i + 1 \in DOMAIN text /\ text[i] = "nothing" /\ text[i + 1] = "but"
  \/ \E i \in DOMAIN text :
       /\ text[i] = "no"
       /\ \/ i + 1 \in DOMAIN text /\ IsNegatedNoun(text[i + 1])
          \/ /\ i + 2 \in DOMAIN text
             /\ text[i + 1] = "other"
             /\ IsNegatedNoun(text[i + 2])

\* C30: hasOnlyConstraint is true exactly for the texts with an exclusivity
\* marker; it is true for "Tube only from Victoria to Bank" and false for
\* "Prefer bus from Victoria to Bank" and for the empty text.
C30_OnlyConstraintMarkers ==
  pc = "tested" =>
    /\ result = HasMarker(arg)
    /\ arg = Query.TubeOnlyVictoria => result = TRUE
    /\ arg = Query.PreferBus => result = FALSE
    /\ arg = << >> => result = FALSE

\* the marker of the tested text is a phrase, and the example is true
C30_Witness ==
  /\ pc = "tested"
  /\ arg = Query.TubeOnlyVictoria
  /\ result = TRUE

C30_WitnessPhrase ==
  /\ pc = "tested"
  /\ arg = << "no", "other", "modes" >>
  /\ result = TRUE

C30_WitnessFalse ==
  /\ pc = "tested"
  /\ arg \in { << >>, << "no", "other", "bus" >>, << "but", "nothing" >> }
  /\ result = FALSE

\* ---- enrichment: what the legs and the providers' answers amount to
CodeKGX == << "K", "G", "X" >>
CodeEUS == << "E", "U", "S" >>
CodePAD == << "P", "A", "D" >>

\* the rail code of a leg of LegKinds that is not a walk
RailCodeOf(leg) ==
  CASE leg = Leg.RailKgx -> CodeKGX
    [] leg = Leg.RailEus -> CodeEUS
    [] OTHER -> << >>

RailCodesOf(legs) == { RailCodeOf(legs[i]) : i \in DOMAIN legs } \ { << >> }

\* the line of a leg of LegKinds, "" when it has none
LineOf(leg) ==
  CASE leg = Leg.Tube -> "victoria"
    [] leg = Leg.Bus -> "bus"
    [] leg = Leg.RailKgx -> "thameslink"
    [] leg = Leg.RailEus -> "national-rail"
    [] OTHER -> ""

OnLineOf(p, leg) ==
  \/ p.lineId = LineOf(leg)
  \/ p.lineId = "Victoria" /\ LineOf(leg) = "victoria"

IsWalk(leg) == leg.mode = "walking"

\* stop and parent-station identifiers of the departure point of a leg
DepartureIds(leg) ==
  { leg.departurePoint.naptanId, leg.departurePoint.stationNaptan } \ { << >> }

Brief(p) ==
  [ id |-> p.id, timeToStation |-> p.timeToStation, platformName |-> p.platformName ]

Ascending(list) ==
  \A i, j \in DOMAIN list :
    i < j => list[i].timeToStation <= list[j].timeToStation

\* list consists of the three earliest members of S, or of all of S
IsEarliestThree(list, S) ==
  /\ Len(list) = Min(Cardinality(S), 3)
  /\ NoDuplicates(list)
  /\ Range(list) \subseteq S
  /\ Ascending(list)
  /\ \A x \in S \ Range(list), y \in Range(list) : y.timeToStation <= x.timeToStation

BatchedList ==
  IF answers.batched # << >> /\ ~answers.batched[1].failed
    THEN answers.batched[1].list ELSE << >>

\* the departures stored for the leg's rail code, the first three as answered
NrSource(i) ==
  LET c == RailCodeOf(journey[i])
  IN  IF c # << >> /\ c \in DOMAIN answers.nr /\ ~answers.nr[c].failed
        THEN SubSeq(answers.nr[c].list, 1, Min(Len(answers.nr[c].list), 3))
        ELSE << >>

AtStopOf(list, i) ==
  { Brief(list[k]) : k \in { n \in DOMAIN list : list[n].naptanId \in DepartureIds(journey[i]) } }

SameLineSource(i) ==
  { Brief(BatchedList[k]) :
      k \in { n \in DOMAIN BatchedList :
                /\ BatchedList[n].naptanId \in DepartureIds(journey[i])
                /\ OnLineOf(BatchedList[n], journey[i]) } }

AnyLineSource(i) == AtStopOf(BatchedList, i)

LineSource(i) ==
  IF i \in DOMAIN answers.line /\ ~answers.line[i].failed
    THEN AtStopOf(answers.line[i].list, i) ELSE {}

LineRequestsOf(i) ==
  Cardinality({ k \in DOMAIN requests.line : requests.line[k].leg = i })

Selected == pc = "lines" \/ pc = "returned"

ProvidersFailedFor(i) ==
  /\ answers.batched = << >> \/ answers.batched[1].failed
  /\ \A c \in DOMAIN answers.nr : answers.nr[c].failed
  /\ i \in DOMAIN answers.line => answers.line[i].failed

\* C22: whichever of the batched request, the requests per rail code and the
\* requests per line fail, the enrichment never rejects; it waits only while
\* a provider call is outstanding, and it returns every leg of the itinerary
\* in its place; a leg all of whose providers failed carries an empty
\* arrivals list.
C22_EnrichmentSurvivesFailures ==
  /\ pc # "rejected"
  /\ pc = "arrivals" => Len(requests.batched) = 1 /\ answers.batched = << >>
  /\ pc = "departures" => nrPending # {}
  /\ pc = "lines" => linePending # {}
  /\ pc = "returned" =>
       /\ nrPending = {}
       /\ linePending = {}
       /\ Len(enhanced) = Len(journey)
       /\ \A i \in DOMAIN journey :
            /\ enhanced[i].leg = journey[i]
            /\ ~enhanced[i].awaiting
            /\ { "fromName", "toName", "distanceSummary" } \subseteq enhanced[i].keys
            /\ (~IsWalk(journey[i]) /\ ProvidersFailedFor(i)) =>
                 /\ enhanced[i].nextArrivals = << >>
                 /\ "nextArrivals" \in enhanced[i].keys

\* the batched request, a request for a rail code and a request for a line
\* have failed and the legs have been returned
C22_Witness ==
  /\ pc = "returned"
  /\ Len(journey) = MaxLegs
  /\ answers.batched = << Failed >>
  /\ \E c \in DOMAIN answers.nr : answers.nr[c].failed
  /\ \E i \in DOMAIN answers.line : answers.line[i].failed
  /\ \E i \in DOMAIN answers.line : ~answers.line[i].failed

NrRequestsIssued == pc \in { "departures", "legs", "lines", "returned" }

\* what C23 says besides the number of requests: the requests are all out
\* before the first completes, the legs are selected after the last has
\* completed, a failed request leaves no entry and rejects nothing, and the
\* entry of a code is what the provider answered for that code.
FanOutFanIn ==
  /\ pc # "rejected"
  /\ pc = "departures" =>
       nrPending \cup DOMAIN answers.nr = Range(requests.nr)
  /\ (\E i \in DOMAIN enhanced : enhanced[i].keys # {}) =>
       nrPending = {} /\ DOMAIN answers.nr = Range(requests.nr)
  /\ DOMAIN nrByCrs = { c \in DOMAIN answers.nr : ~answers.nr[c].failed }
  /\ \A c \in DOMAIN nrByCrs : nrByCrs[c] = answers.nr[c].list

C23_WitnessOrder ==
  /\ requests.nr = << CodeKGX, CodeEUS >>
  /\ nrPending = { CodeKGX }
  /\ CodeEUS \in DOMAIN nrByCrs

BatchedIdsOf(legs) ==
  UNION { DepartureIds(legs[i]) : i \in { n \in DOMAIN legs : ~IsWalk(legs[n]) } }

\* C24: at most one batched arrivals request is issued for an itinerary; it
\* asks for exactly the stop and parent-station identifiers of the departure
\* points of the legs that are not walks; none is issued when there is no
\* such identifier.
C24_OneBatchedRequest ==
  /\ Len(requests.batched) <= 1
  /\ pc = "enhance" => requests.batched = << >>
  /\ pc # "enhance" =>
       IF BatchedIdsOf(journey) = {}
         THEN requests.batched = << >>
         ELSE /\ Len(requests.batched) = 1
              /\ NoDuplicates(requests.batched[1])
              /\ Range(requests.batched[1]) = BatchedIdsOf(journey)

\* one request has asked for the stops of a tube leg with a parent station
\* and of a bus leg, a walk between them
C24_Witness ==
  /\ pc = "returned"
  /\ journey = << Leg.Tube, Leg.Walk, Leg.Bus >>
  /\ Len(requests.batched) = 1
  /\ Range(requests.batched[1]) = { Id.OxfordCircus, Id.Hub, Id.BusStop }

\* an itinerary of walks has been enriched without a batched request
C24_WitnessNone ==
  /\ pc = "returned"
  /\ Len(journey) = 2
  /\ requests.batched = << >>

\* C25: the arrivals chosen for a leg that is not a walk are the first that
\* is not empty of: the departures for its rail code; the batched arrivals at
\* its stop or parent station on its line; the batched arrivals at its stop
\* or parent station; the answer of a request for its line.  That request is
\* issued at most once per leg, and only for a leg with a line for which the
\* earlier sources are empty.  With a first leg that has arrivals of its line,
\* a second that has arrivals of another line and a third that has none, the
\* legs carry these and the third is empty after one request for its line.
C25_FirstSourceWins ==
  Selected =>
    /\ \A i \in DOMAIN journey :
         LET next == enhanced[i].nextArrivals
             hasLine == LineOf(journey[i]) # ""
         IN  ~IsWalk(journey[i]) =>
               /\ LineRequestsOf(i) <= 1
               /\ LineRequestsOf(i) = 1 =>
                    /\ hasLine
                    /\ NrSource(i) = << >>
                    /\ SameLineSource(i) = {}
                    /\ AnyLineSource(i) = {}
               /\ IF NrSource(i) # << >>
                    THEN next = NrSource(i) /\ LineRequestsOf(i) = 0
                  ELSE IF hasLine /\ SameLineSource(i) # {}
                    THEN IsEarliestThree(next, SameLineSource(i)) /\ LineRequestsOf(i) = 0
                  ELSE IF AnyLineSource(i) # {}
                    THEN IsEarliestThree(next, AnyLineSource(i)) /\ LineRequestsOf(i) = 0
                  ELSE IF hasLine
                    THEN /\ LineRequestsOf(i) = 1
                         /\ IF enhanced[i].awaiting THEN next = << >>
                            ELSE IsEarliestThree(next, LineSource(i))
                  ELSE next = << >> /\ LineRequestsOf(i) = 0
    /\ ( /\ pc = "returned"
         /\ journey = << Leg.Tube, Leg.Bus, Leg.RailKgx >>
         /\ BatchedList = ArrivalsAtStops
         /\ NrSource(3) = << >>
         /\ LineSource(3) = {} ) =>
           /\ [ k \in 1..3 |-> enhanced[1].nextArrivals[k].id ] = << 3, 2, 5 >>
           /\ [ k \in 1..1 |-> enhanced[2].nextArrivals[k].id ] = << 6 >>
           /\ Len(enhanced[2].nextArrivals) = 1
           /\ enhanced[3].nextArrivals = << >>
           /\ LineRequestsOf(3) = 1
           /\ Len(requests.line) = 1

\* the itinerary of three legs: arrivals of its line for the first, of
\* another line for the second, none for the third after one line request
C25_Witness ==
  /\ pc = "returned"
  /\ journey = << Leg.Tube, Leg.Bus, Leg.RailKgx >>
  /\ BatchedList = ArrivalsAtStops
  /\ Len(enhanced[1].nextArrivals) = 3
  /\ Len(enhanced[2].nextArrivals) = 1
  /\ enhanced[3].nextArrivals = << >>
  /\ 3 \in DOMAIN answers.line
  /\ ~answers.line[3].failed
  /\ LineRequestsOf(3) = 1

\* departures have been chosen for a rail leg, line arrivals for another leg
C25_WitnessSources ==
  /\ pc = "returned"
  /\ \E i \in DOMAIN journey : NrSource(i) # << >> /\ enhanced[i].nextArrivals = NrSource(i)
  /\ \E i \in DOMAIN journey : LineSource(i) # {} /\ Len(enhanced[i].nextArrivals) = 3

\* C26: the arrivals of every enriched leg are at most three, ascending by
\* seconds to arrival, whatever their source and the provider's order, and
\* the leg's platform is the platform of the first of them.
C26_ThreeAscendingArrivals ==
  \A i \in DOMAIN enhanced :
    /\ Len(enhanced[i].nextArrivals) <= 3
    /\ Ascending(enhanced[i].nextArrivals)
    /\ enhanced[i].platformName =
         IF enhanced[i].nextArrivals = << >> THEN ""
         ELSE enhanced[i].nextArrivals[1].platformName

\* C27: a walk causes no arrivals request: the identifiers of its departure
\* point are not asked for in the batched request, no departures are
\* requested for its rail code and no line arrivals for the leg; enriched, it
\* carries the names of its end points, the distance summary and the
\* directions link, and neither arrivals nor a platform.
C27_WalksCauseNoRequest ==
  /\ \A i \in DOMAIN journey :
       IsWalk(journey[i]) =>
         /\ LineRequestsOf(i) = 0
         /\ i \notin linePending
         /\ i \notin DOMAIN answers.line
         /\ enhanced[i].keys \subseteq
              { "fromName", "toName", "distanceSummary", "googleMapsUrl" }
         /\ Selected =>
              enhanced[i].keys =
                { "fromName", "toName", "distanceSummary", "googleMapsUrl" }
         /\ enhanced[i].nextArrivals = << >>
         /\ enhanced[i].platformName = ""
  /\ \A k \in DOMAIN requests.batched : Id.Paddington \notin Range(requests.batched[k])
  /\ CodePAD \notin Range(requests.nr)
  /\ CodePAD \notin DOMAIN nrByCrs
  /\ (\A i \in DOMAIN journey : IsWalk(journey[i])) => requests = NoRequests

\* a walk from a rail station has been enriched next to a rail leg whose
\* departures were requested
C27_Witness ==
  /\ pc = "returned"
  /\ nrEnabled
  /\ journey = << Leg.Walk, Leg.RailKgx, Leg.Tube >>
  /\ requests.nr = << CodeKGX >>
  /\ Len(requests.batched) = 1
  /\ enhanced[1].keys = { "fromName", "toName", "distanceSummary", "googleMapsUrl" }

\* an itinerary of walks only has been enriched
C27_WitnessWalksOnly ==
  /\ pc = "returned"
  /\ journey = << Leg.Walk, Leg.Walk >>
  /\ requests = NoRequests

\* the error texts written in route.ts
AuthoredMessages ==
  { Msg.LowConfidence, Msg.NotJourney, Msg.NeedMoreInfo, Msg.LocationRequired,
    Msg.CouldNotResolveStart, Msg.CouldNotFindLocation, Msg.DestinationRequired,
    Msg.CouldNotFindDestination, Msg.CouldNotFindStart, Msg.BothRequired,
    Msg.NoJourneys, Msg.FailedToPlan }

\* C33: on either path the error text of a response is a message written by
\* the handler: it is never the message of an error thrown by the transport
\* provider's client (the message of the provider's error payload) nor that
\* of a runtime exception.
C33_OnlyAuthoredErrorTexts ==
  response.status = "error" =>
    /\ response.error \notin { Msg.TflApiError, Msg.TypeError }
    /\ response.error # Msg.AiError => response.error \in AuthoredMessages

\* C34: the via of the plan request of an attempt of the natural-language
\* path is the via resolved from the intent of that attempt: when the intent
\* has no via, or its via is not resolved, the plan request carries no via,
\* whatever an earlier attempt resolved.
C34_ViaOfCurrentAttemptOnly ==
  [][ (IsNL /\ pc = "plan" /\ planRequest' # NoRequest) =>
        planRequest'.via =
          IF FirstVia(intent.via) = "name" /\ resolution.endpoint = "via"
            THEN resolution.loc
            ELSE "null" ]_vars

\* C35: in the natural-language path the step that follows a planner answer
\* with at least one journey ends the request with a success response built
\* from the journeys of that attempt: it starts no new attempt, calls neither
\* the extractor nor the planner again and sends no error.
C35_NoBackEdgeFromEnriching ==
  [][ (IsNL /\ pc = "enrich") =>
        /\ pc' = "done"
        /\ attempt' = attempt
        /\ total' = total
        /\ response'.status = "success"
        /\ \A i \in 1..Len(response'.data.journeys) :
             response'.data.journeys[i].at = attempt ]_vars

\* a natural-language request without any mode preference: none in the
\* request body, none in the intent, none in the text of the query
NoPreference ==
  [ path |-> "nl", bodyModes |-> NoModes, nlModes |-> NoModes,
    modePolicy |-> "absent", query |-> Query.Plain ]

\* C38: in the natural-language path, when neither the request body nor the
\* intent nor the text of the query names a mode, the journeys returned are
\* the planner's first three in the planner's order.
C38_NoPreferenceKeepsPlannerOrder ==
  ( /\ pc = "sliced"
    /\ requestedModes = RequestedModes(NoPreference)
    /\ restrictToMentionedModes = RestrictToMentionedModes(NoPreference) )
    => topJourneys = FirstThree(resultJourneys)

\* what an option text stands for: "wheelchair" and a bare "step-free" for
\* step-free-vehicle, "step-free to platform" for step-free-platform, the
\* canonical names for themselves, anything else for nothing
OptionMeaning(o) ==
  CASE o = << "step-free", "vehicle" >> -> "step-free-vehicle"
    [] o = << "step-free", "platform" >> -> "step-free-platform"
    [] o = << "wheelchair" >> -> "step-free-vehicle"
    [] o = << " ", "Wheelchair", " " >> -> "step-free-vehicle"
    [] o = << "step-free" >> -> "step-free-vehicle"
    [] o = << "step-free", "to", "platform" >> -> "step-free-platform"
    [] o = << "audio", "announcements" >> -> "audio-announcements"
    [] o = << "visual", "displays" >> -> "visual-displays"
    [] OTHER -> ""

\* the option list the request is planned with: that of the request body
\* or, without one, that of the intent
OptionsOf(a) ==
  IF a.accessibility.present THEN a.accessibility.list
  ELSE IF a.path = "nl" /\ a.nlAccessibility.present THEN a.nlAccessibility.list
  ELSE << >>

IsAudioVisual(o) == OptionMeaning(o) \in { "audio-announcements", "visual-displays" }

NotAudioVisual(o) == ~IsAudioVisual(o)

\* C31: on both paths the options normalize to what they stand for, the plan
\* request carries one accessibility constraint, which is StepFreeToVehicle
\* when an option stands for step-free-vehicle, else StepFreeToPlatform when
\* one stands for step-free-platform, else NoRequirements, and the constraint
\* is the same without the audio and visual options.
C31_AccessibilityConstraint ==
  pc = "params" =>
    LET meanings == { OptionMeaning(o) : o \in Range(OptionsOf(arg)) } \ { "" }
    IN  /\ Range(normalizeAccessibilityOptions(OptionsOf(arg))) = meanings
        /\ "accessibilityPreference" \in DOMAIN result
        /\ result.accessibilityPreference =
             IF "step-free-vehicle" \in meanings THEN "StepFreeToVehicle"
             ELSE IF "step-free-platform" \in meanings THEN "StepFreeToPlatform"
             ELSE "NoRequirements"
        /\ result.accessibilityPreference =
             accessibilityPreference(
               normalizeAccessibilityOptions(SelectSeq(OptionsOf(arg), NotAudioVisual)))

\* an intent whose only option is the text "step-free to platform", for a
\* request body without options
C31_Witness ==
  /\ pc = "params" /\ arg.path = "nl"
  /\ ~arg.accessibility.present
  /\ arg.nlAccessibility.list = << << "step-free", "to", "platform" >> >>
  /\ result.accessibilityPreference = "StepFreeToPlatform"

\* a manual request with a platform option, a padded wheelchair option
C31_WitnessManual ==
  /\ pc = "params" /\ arg.path = "manual"
  /\ arg.accessibility.list =
       << << "step-free", "platform" >>, << " ", "Wheelchair", " " >> >>
  /\ result.accessibilityPreference = "StepFreeToVehicle"

\* an audio option only
C31_WitnessAudio ==
  /\ pc = "params"
  /\ arg.accessibility.list = << << "audio", "announcements" >> >>
  /\ result.accessibilityPreference = "NoRequirements"

\* the texts of the dates of Preferences
Stamp(d) ==
  IF d.year = 2026
    THEN [ date |-> << 2, 0, 2, 6, 1, 1, 0, 5 >>, time |-> << 0, 9, 0, 5 >> ]
    ELSE [ date |-> << 2, 0, 2, 7, 0, 1, 3, 1 >>, time |-> << 2, 3, 5, 9 >> ]

IsDate(t) == t.kind = "date"

\* C39: the plan request has date, time and timeIs together or none of them;
\* timeIs is Arriving or Departing; a missing or unparseable date gives none
\* of the three; in the natural-language path timeIs is Arriving exactly for
\* the time type arrive; in the manual path an arrival time gives its own
\* date and time with Arriving, whether or not there is a departure time,
\* and a departure time alone gives its date and time with Departing.
C39_DateTimeDirectionTogether ==
  pc = "params" =>
    LET keys == DOMAIN result \cap { "date", "time", "timeIs" }
        carries(t, dir) ==
          /\ keys = { "date", "time", "timeIs" }
          /\ result.date = Stamp(t).date
          /\ result.time = Stamp(t).time
          /\ result.timeIs = dir
    IN  /\ keys \in { {}, { "date", "time", "timeIs" } }
        /\ keys # {} => result.timeIs \in { "Arriving", "Departing" }
        /\ arg.path = "nl" =>
             IF IsDate(arg.nlpTime.datetime)
               THEN carries(arg.nlpTime.datetime,
                            IF arg.nlpTime.type = "arrive" THEN "Arriving"
                            ELSE "Departing")
               ELSE keys = {}
        /\ arg.path = "manual" =>
             IF IsDate(arg.arrivalTime) THEN carries(arg.arrivalTime, "Arriving")
             ELSE IF IsDate(arg.departureTime)
               THEN carries(arg.departureTime, "Departing")
             ELSE keys = {}

\* a manual request with a departure time and another arrival time
C39_Witness ==
  /\ pc = "params" /\ arg.path = "manual"
  /\ IsDate(arg.departureTime) /\ arg.departureTime.year = 2026
  /\ IsDate(arg.arrivalTime) /\ arg.arrivalTime.year = 2027
  /\ result.timeIs = "Arriving"
  /\ result.date = << 2, 0, 2, 7, 0, 1, 3, 1 >>

\* an intent with an unparseable date and the time type arrive
C39_WitnessUnparseable ==
  /\ pc = "params" /\ arg.path = "nl"
  /\ arg.nlpTime.datetime.kind = "invalid" /\ arg.nlpTime.type = "arrive"
  /\ DOMAIN result = { "accessibilityPreference" }

\* an intent with a date and no time type
C39_WitnessDeparting ==
  /\ pc = "params" /\ arg.path = "nl"
  /\ IsDate(arg.nlpTime.datetime) /\ arg.nlpTime.type = "absent"
  /\ result.timeIs = "Departing"
  /\ result.time = << 0, 9, 0, 5 >>

\* C36: in every attempt of a natural-language request the exclusivity
\* decision is that of the original query's text (or of the intent's mode
\* policy) and the modes taken from the text are those of the original
\* query; the original query is the same in every attempt and the feedback
\* suffix of the retries neither turns exclusivity on nor adds a mode.
C36_ModesFromOriginalQuery ==
  /\ [](pc = "built" =>
          /\ restrictToMentionedModes =
               (HasMarker(prefs.query) \/ prefs.modePolicy = "only")
          /\ requestedModes = RequestedModes(prefs)
          /\ (~prefs.bodyModes.present /\ ~prefs.nlModes.present) =>
               requestedModes =
                 IF extractModesFromQuery(prefs.query) = << >> THEN DEFAULT_MODES
                 ELSE extractModesFromQuery(prefs.query))
  /\ [][ /\ prefs'.query = prefs.query
         /\ currentQuery'.original = currentQuery.original ]_vars

\* the fifth attempt of a request that prefers the bus: the text given to
\* the extractor carries the feedback, the mode list does not
C36_Witness ==
  /\ pc = "built"
  /\ attempt = 4
  /\ Len(currentQuery.feedback) = 1
  /\ prefs.query = Query.PreferBus
  /\ ~prefs.bodyModes.present /\ ~prefs.nlModes.present
  /\ prefs.modePolicy = "absent"
  /\ ~restrictToMentionedModes
  /\ requestedModes = << "bus" >>

\* C37: the fan-ins keep the order of their inputs whatever the order in
\* which the calls complete: enhanceLegsWithArrivals returns one enriched leg
\* per leg of the itinerary, at the position of that leg (walking legs
\* included) and computed from the answer to that leg's own request, and
\* journeysWithDescriptions lists the ranked journeys in their ranked order.
C37_FanInKeepsOrder ==
  /\ pc = "returned" =>
       /\ Len(enhanced) = Len(journey)
       /\ \A i \in DOMAIN journey :
            /\ enhanced[i].leg = journey[i]
            /\ ~enhanced[i].awaiting
            /\ i \in DOMAIN answers.line =>
                 enhanced[i] =
                   AfterLineArrivals(
                     EnhanceLeg(journey[i], SortByTime(arrivals), nrByCrs, nrEnabled),
                     Caught(answers.line[i]).list)
  /\ pc = "joined" =>
       /\ Len(journeysWithDescriptions) = Len(topJourneys)
       /\ \A i \in DOMAIN topJourneys :
            /\ journeysWithDescriptions[i].id = topJourneys[i].id
            /\ journeysWithDescriptions[i].legs = topJourneys[i].legs
            /\ journeysWithDescriptions[i].accessibleDescription = "described"

\* the request of the last leg has completed before that of the first leg,
\* with a walking leg between the two
C37_Witness ==
  /\ pc = "lines"
  /\ journey = << Leg.Tube, Leg.Walk, Leg.Bus >>
  /\ linePending = { 1 }
  /\ 3 \in DOMAIN answers.line
  /\ enhanced[3].nextArrivals # << >>

\* the itinerary above has been returned
C37_WitnessReturned ==
  /\ pc = "returned"
  /\ journey = << Leg.Tube, Leg.Walk, Leg.Bus >>
  /\ DOMAIN answers.line = { 1, 3 }
  /\ enhanced[1].nextArrivals # << >>
  /\ enhanced[3].nextArrivals # << >>

\* the journeys were re-ranked and the calls of the second journey completed
\* before those of the first
C37_WitnessJourneys ==
  /\ pc = "joining"
  /\ topJourneys # FirstThree(resultJourneys)
  /\ journeysWithDescriptions[1].awaiting
  /\ ~journeysWithDescriptions[2].awaiting

\* all the journeys of a re-ranked answer have been gathered
C37_WitnessJoined ==
  /\ pc = "joined"
  /\ Len(topJourneys) = 3
  /\ topJourneys # FirstThree(resultJourneys)

C32_WitnessNL ==
  /\ running = 1
  /\ body.nlq
  /\ pc = "done"
  /\ response.status = "error"
  /\ suspended.started
  /\ suspended.pc = "done"
  /\ suspended.response.status = "success"
====
